---- MODULE Spec2Model ----
(***************************************************************************)
(* lockedarchive: the local cache (catalog rows, blob files, job queue) of *)
(* package localstorage and the chunked stream codec of package stream.    *)
(***************************************************************************)
EXTENDS Integers, Sequences, FiniteSets, TLC

(***************************************************************************)
(* Bounds of the model.                                                    *)
(***************************************************************************)
NumThreads == 2     \* goroutines that share one Cache handle
MaxEnq == 3         \* EnqueueJob calls that reach insertJob in one behaviour

SmallChunk == 2     \* plaintext bytes per chunk in the reduced codec
SmallNonce == 3     \* nonce bytes in the reduced codec
SmallOverhead == 1  \* authenticator bytes in the reduced codec
SmallByteMod == 2   \* values of one nonce byte in the reduced codec

ChunkTestLen == 2   \* len(chunk) in the chunk loop
MaxReads == 4       \* Read calls a reader answers before its last result

MaxServiceOps == 5  \* calls of the service package in one behaviour
MaxCabinetCalls == 2 \* calls the application makes on one Cabinet
MaxChunks == 2      \* writes the compressor needs for the source file, at most

(***************************************************************************)
(* Sizes of the stream codec.                                              *)
(***************************************************************************)
NonceSize == 24
EncryptionChunkSize == 3927
Overhead == 16      \* secretbox.Overhead
ByteMod == 256      \* a nonce byte is a uint8

Threads == 1..NumThreads
Keys == {"k1", "k2"}
ParentKeys == {"p1", "p2"}
Names == {"n1"}
Types == {"-"}
Sizes == {7}
Bodies == {"nil", "b1"}          \* e.Body: nil, or a reader over blob b1
DbFaults == BOOLEAN              \* TRUE: the database statements of the call fail
FsFaults == {"ok", "fail", "short"} \* file system: fine / Create or Remove fails / io.Copy fails midway

(***************************************************************************)
(* time.Time, as far as the cache uses it: seconds and a sub-second part.  *)
(***************************************************************************)
Times == {[sec |-> 1, nsec |-> 0], [sec |-> 1, nsec |-> 5]}
ZeroTime == [sec |-> 0, nsec |-> 0]
Unix(t) == t.sec
TimeUnix(s) == [sec |-> s, nsec |-> 0]

Entries == [Key : Keys, ParentKey : ParentKeys, Name : Names, Type : Types,
            Size : Sizes, LastModified : Times, Body : Bodies]
ZeroEntry == [Key |-> "", ParentKey |-> "", Name |-> "", Type |-> "",
              Size |-> 0, LastModified |-> ZeroTime, Body |-> "nil"]

(***************************************************************************)
(* Job actions (the iota block) and the job record.                        *)
(***************************************************************************)
ActionList == 0
ActionUpload == 1
ActionDownload == 2
ActionUpdate == 3
ActionDelete == 4
ActionInputs == {ActionUpload, 7}       \* a valid action and an invalid one
ZeroJob == [ID |-> 0, Key |-> "", Action |-> 0, seq |-> 0]

VARIABLES
    entries,   \* table entries: key -> row
    files,     \* cacheRoot/Cabinet/<key>: "none", a blob, or "partial"
    jobs,      \* table jobs: set of rows [ID, Key, Action]; seq is a ghost serial number
    pc,        \* per goroutine: "idle", or "selected" between the two statements of DequeueJob
    sel,       \* per goroutine: the row selectNextJob returned
    enqLog,    \* ghost: the jobs inserted, in order
    deqLog,    \* ghost: seq of the jobs returned by successful DequeueJob calls, in order
    ret,       \* the last call that returned, with its result
    mode,      \* "seq": calls do not overlap; "conc": goroutines interleave
    ever       \* ghost: keys that were ever passed to RememberEntry

cacheVars == <<entries, files, jobs, pc, sel, enqLog, deqLog, ret, mode, ever>>

VARIABLES
    sz,        \* the sizes the codec runs with: [chunk, nonce, overhead, mod]
    encKey,    \* the key of the Encrypt call
    src,       \* the plaintext behind the reader of Encrypt
    enc,       \* the Encrypt call: its locals and, once done, its results
    cipher,    \* the bytes Encrypt wrote
    seals,     \* ghost: the secretbox.Seal calls made so far, [key, nonce, msg]
    chan,      \* what happened to the ciphertext on its way, and the key of Decrypt
    wire,      \* the bytes behind the reader of Decrypt
    dec,       \* the Decrypt call: its locals and, once done, its results
    out,       \* the bytes Decrypt wrote
    ctxDone    \* the context of the running call is cancelled

streamVars == <<sz, encKey, src, enc, cipher, seals, chan, wire, dec, out, ctxDone>>

VARIABLES
    chk        \* the chunk loop of runChunkTest: its reader, the Read calls made, dst

VARIABLES
    sec        \* package secure: a passphrase, a key, the wrapped key and what unwrapping gave

VARIABLES
    cl         \* TestEntry: an entry, its sealed metadata and the entry updated from it

VARIABLES
    svc        \* package service: config, passphrase, the config file, the last call and its result

VARIABLES
    cab        \* package fcab: the pools, the flag, the goroutines and the adapter of one Cabinet

VARIABLES
    wr         \* package cache: one call of Write with the goroutines of streamToFile

nonCacheVars == <<streamVars, chk, sec, cl, svc, cab, wr>>
nonStreamVars == <<cacheVars, chk, sec, cl, svc, cab, wr>>
nonChunkVars == <<cacheVars, streamVars, sec, cl, svc, cab, wr>>
nonSecureVars == <<cacheVars, streamVars, chk, cl, svc, cab, wr>>
nonCloudVars == <<cacheVars, streamVars, chk, sec, svc, cab, wr>>
nonServiceVars == <<cacheVars, streamVars, chk, sec, cl, cab, wr>>
nonCabinetVars == <<pc, sel, enqLog, deqLog, ret, mode, ever, streamVars, chk, sec, cl, svc, wr>>
nonWriteVars == <<cacheVars, streamVars, chk, sec, cl, svc, cab>>

(***************************************************************************)
(* SQL values of the nullable columns size and last_modified.              *)
(***************************************************************************)
Null == [t |-> "null", v |-> 0]
IntVal(n) == [t |-> "int", v |-> n]
\* a time.Time bound as a statement argument is stored as formatted text
TextVal(tm) == [t |-> "text", v |-> tm.sec * 10 + tm.nsec]

NoRet == [op |-> "none", key |-> "", err |-> "nil", e |-> ZeroEntry, got |-> ZeroEntry,
          job |-> ZeroJob, flag |-> FALSE, upserted |-> FALSE, blobFailed |-> FALSE]

(***************************************************************************)
(* selectEntry: sqlSelectEntryViaKey, then Scan into the entry.  Scan      *)
(* fills the columns in order and fails on a NULL or a text value read     *)
(* into an int64.                                                          *)
(***************************************************************************)
selectEntry(rows, key, dbFault) ==
    IF dbFault THEN [e |-> ZeroEntry, err |-> "dbError"]
    ELSE IF key \notin DOMAIN rows THEN [e |-> ZeroEntry, err |-> "sql.ErrNoRows"]
    ELSE LET row == rows[key]
             part == [ZeroEntry EXCEPT !.Key = key, !.ParentKey = row.parent_key,
                                       !.Name = row.name, !.Type = row.type]
         IN IF row.size.t # "int" \/ row.last_modified.t # "int"
            THEN [e |-> part, err |-> "scanError"]
            ELSE [e |-> [part EXCEPT !.Size = row.size.v,
                                     !.LastModified = IF row.last_modified.v # 0
                                                      THEN TimeUnix(row.last_modified.v)
                                                      ELSE ZeroTime],
                  err |-> "nil"]

(***************************************************************************)
(* insertEntry: sqlInsertEntryBase when the entry has no body (size and    *)
(* last_modified stay NULL), sqlInsertEntryComplete otherwise.             *)
(***************************************************************************)
insertEntry(rows, e, dbFault) ==
    IF dbFault THEN [rows |-> rows, err |-> "dbError"]
    ELSE IF e.Key \in DOMAIN rows THEN [rows |-> rows, err |-> "constraint"]
    ELSE LET row == IF e.Body = "nil"
                    THEN [parent_key |-> e.ParentKey, name |-> e.Name, type |-> e.Type,
                          size |-> Null, last_modified |-> Null]
                    ELSE [parent_key |-> e.ParentKey, name |-> e.Name, type |-> e.Type,
                          size |-> IntVal(e.Size),
                          last_modified |-> IntVal(Unix(e.LastModified))]
         IN [rows |-> rows @@ (e.Key :> row), err |-> "nil"]

(***************************************************************************)
(* compareEntries: the columns that differ, with the new values.           *)
(***************************************************************************)
compareEntries(existing, new) ==
    (IF existing.ParentKey # new.ParentKey
        THEN << [col |-> "parent_key", str |-> new.ParentKey, val |-> Null] >> ELSE << >>)
    \o (IF existing.Name # new.Name
        THEN << [col |-> "name", str |-> new.Name, val |-> Null] >> ELSE << >>)
    \o (IF existing.Type # new.Type
        THEN << [col |-> "type", str |-> new.Type, val |-> Null] >> ELSE << >>)
    \o (IF existing.Size # new.Size
        THEN << [col |-> "size", str |-> "", val |-> IntVal(new.Size)] >> ELSE << >>)
    \o (IF existing.LastModified # new.LastModified
        THEN << [col |-> "last_modified", str |-> "", val |-> TextVal(new.LastModified)] >>
        ELSE << >>)

\* one sqlUpdateEntryViaKey statement
updateColumn(row, c) ==
    CASE c.col = "parent_key" -> [row EXCEPT !.parent_key = c.str]
      [] c.col = "name" -> [row EXCEPT !.name = c.str]
      [] c.col = "type" -> [row EXCEPT !.type = c.str]
      [] c.col = "size" -> [row EXCEPT !.size = c.val]
      [] c.col = "last_modified" -> [row EXCEPT !.last_modified = c.val]

RECURSIVE updateColumns(_, _, _)
updateColumns(row, cols, i) ==
    IF i > Len(cols) THEN row
    ELSE updateColumns(updateColumn(row, cols[i]), cols, i + 1)

(***************************************************************************)
(* updateEntry: the err of the if statement shadows the result, so the     *)
(* function returns nil whatever selectEntry and the updates report.       *)
(***************************************************************************)
updateEntry(rows, e, dbFault) ==
    LET s == selectEntry(rows, e.Key, dbFault)
    IN IF s.err = "nil"
       THEN [rows |-> [rows EXCEPT ![e.Key] = updateColumns(rows[e.Key], compareEntries(s.e, e), 1)],
             err |-> "nil", done |-> TRUE]
       ELSE [rows |-> rows, err |-> "nil", done |-> FALSE]

upsertEntry(rows, e, dbFault) ==
    LET ins == insertEntry(rows, e, dbFault)
    IN IF ins.err # "nil"
       THEN updateEntry(rows, e, dbFault)
       ELSE [rows |-> ins.rows, err |-> "nil", done |-> TRUE]

deleteEveryRow(rows, key, dbFault) ==
    IF dbFault THEN [rows |-> rows, err |-> "dbError"]
    ELSE [rows |-> << >>, err |-> "nil"]

\* sqlDeleteEntry: no error when no row has the key
deleteEntryRow(rows, key, dbFault) ==
    IF dbFault THEN [rows |-> rows, err |-> "dbError"]
    ELSE [rows |-> [k \in DOMAIN rows \ {key} |-> rows[k]], err |-> "nil"]

fileDoesNotExist(fs, key) == fs[key] = "none"

deleteFileIfExists(fs, key, fsFault) ==
    IF fileDoesNotExist(fs, key) THEN [files |-> fs, err |-> "nil"]
    ELSE IF fsFault # "ok" THEN [files |-> fs, err |-> "fsError"]
    ELSE [files |-> [fs EXCEPT ![key] = "none"], err |-> "nil"]

\* os.Create then io.Copy; a failed Create leaves the old file, a failed Copy a partial one
createAndCopy(fs, key, body, fsFault) ==
    CASE fsFault = "ok" -> [files |-> [fs EXCEPT ![key] = body], err |-> "nil"]
      [] fsFault = "fail" -> [files |-> fs, err |-> "fsError"]
      [] fsFault = "short" -> [files |-> [fs EXCEPT ![key] = "partial"], err |-> "fsError"]

(***************************************************************************)
(* ContainsEntry: sqlSelectEntryExists is "SELECT EXISTS(1) FROM entries   *)
(* WHERE key = ?"; SQLite accepts EXISTS only before a subquery and        *)
(* rejects the statement, Scan returns the error, the error is logged and  *)
(* exists keeps its zero value.                                            *)
(***************************************************************************)
sqlSelectEntryExists(rows, key) == [exists |-> FALSE, err |-> "syntaxError"]

ContainsEntry(rows, key) ==
    LET q == sqlSelectEntryExists(rows, key)
    IN IF q.err # "nil" THEN FALSE ELSE q.exists

(***************************************************************************)
(* RecallEntry: the row, and the blob file as Body when it opens; a        *)
(* missing file is not an error.                                           *)
(***************************************************************************)
RecallEntry(rows, fs, key) ==
    LET s == selectEntry(rows, key, FALSE)
    IN IF s.err = "nil" /\ fs[key] # "none"
       THEN [e |-> [s.e EXCEPT !.Body = fs[key]], err |-> "nil"]
       ELSE s

isValidAction(action) ==
    action \in {ActionList, ActionUpload, ActionDownload, ActionUpdate, ActionDelete}

MaxID(js) == IF js = {} THEN 0 ELSE CHOOSE m \in {j.ID : j \in js} : \A j \in js : j.ID <= m

\* sqlInsertJob: id is INTEGER PRIMARY KEY, SQLite assigns the largest rowid + 1
insertJob(js, key, action, serial, dbFault) ==
    IF dbFault THEN [jobs |-> js, err |-> "dbError"]
    ELSE [jobs |-> js \cup {[ID |-> MaxID(js) + 1, Key |-> key, Action |-> action, seq |-> serial]},
          err |-> "nil"]

selectLastJob(js, dbFault) ==
    IF dbFault THEN [j |-> ZeroJob, err |-> "dbError"]
    ELSE IF js = {} THEN [j |-> ZeroJob, err |-> "sql.ErrNoRows"]
    ELSE [j |-> CHOOSE j \in js : \A o \in js : j.ID >= o.ID, err |-> "nil"]

\* sqlGetNextJob: SELECT * FROM jobs LIMIT 1 walks the table in rowid order
selectNextJob(js, dbFault) ==
    IF dbFault THEN [j |-> ZeroJob, err |-> "dbError"]
    ELSE IF js = {} THEN [j |-> ZeroJob, err |-> "sql.ErrNoRows"]
    ELSE [j |-> CHOOSE j \in js : \A o \in js : j.ID <= o.ID, err |-> "nil"]

\* sqlDeleteJob: no error when no row has the id
deleteJob(js, j, dbFault) ==
    IF dbFault THEN [jobs |-> js, err |-> "dbError"]
    ELSE [jobs |-> {o \in js : o.ID # j.ID}, err |-> "nil"]

(***************************************************************************)
(* The calls on a Cache.                                                   *)
(***************************************************************************)
AllIdle == \A t \in Threads : pc[t] = "idle"
MayStart == mode = "conc" \/ AllIdle
\* the behaviours that exercise the catalog keep a queue of one job
EnqLimit == IF mode = "cache" THEN 1 ELSE MaxEnq

RememberEntry(e, dbFault, fsFault) ==
    /\ MayStart
    /\ LET up == upsertEntry(entries, e, dbFault)
           fr == IF e.Body = "nil"
                 THEN deleteFileIfExists(files, e.Key, fsFault)
                 ELSE createAndCopy(files, e.Key, e.Body, fsFault)
           \* the err of os.Create and io.Copy is a shadowing variable
           err == IF e.Body = "nil" THEN fr.err ELSE "nil"
       IN /\ entries' = up.rows
          /\ files' = fr.files
          /\ ret' = [NoRet EXCEPT !.op = "RememberEntry", !.key = e.Key, !.e = e, !.err = err,
                                  !.upserted = up.done,
                                  !.blobFailed = (e.Body # "nil" /\ fr.err # "nil")]
    /\ ever' = ever \cup {e.Key}
    /\ UNCHANGED <<jobs, pc, sel, enqLog, deqLog, mode>>
    /\ UNCHANGED nonCacheVars

ForgetEntry(key, dbFault, fsFault) ==
    /\ MayStart
    /\ LET fr == deleteFileIfExists(files, key, fsFault)
           dr == IF fr.err = "nil" THEN deleteEntryRow(entries, key, dbFault)
                 ELSE [rows |-> entries, err |-> fr.err]
       IN /\ files' = fr.files
          /\ entries' = dr.rows
          /\ ret' = [NoRet EXCEPT !.op = "ForgetEntry", !.key = key, !.err = dr.err,
                                  !.flag = (key \in ever)]
    /\ UNCHANGED <<jobs, pc, sel, enqLog, deqLog, mode, ever>>
    /\ UNCHANGED nonCacheVars

Recall(key) ==
    /\ MayStart
    /\ LET r == RecallEntry(entries, files, key)
       IN ret' = [NoRet EXCEPT !.op = "RecallEntry", !.key = key, !.err = r.err, !.got = r.e]
    /\ UNCHANGED <<entries, files, jobs, pc, sel, enqLog, deqLog, mode, ever>>
    /\ UNCHANGED nonCacheVars

Contains(key) ==
    /\ MayStart
    /\ ret' = [NoRet EXCEPT !.op = "ContainsEntry", !.key = key,
                            !.flag = ContainsEntry(entries, key)]
    /\ UNCHANGED <<entries, files, jobs, pc, sel, enqLog, deqLog, mode, ever>>
    /\ UNCHANGED nonCacheVars

EnqueueJob(key, action, dbFault) ==
    /\ MayStart
    /\ Len(enqLog) < EnqLimit
    /\ IF ~isValidAction(action)
       THEN /\ ret' = [NoRet EXCEPT !.op = "EnqueueJob", !.key = key, !.err = "errInvalidAction"]
            /\ UNCHANGED <<jobs, enqLog>>
       ELSE LET r == insertJob(jobs, key, action, Len(enqLog) + 1, dbFault)
            IN /\ jobs' = r.jobs
               /\ enqLog' = IF r.err = "nil"
                            THEN Append(enqLog, [Key |-> key, Action |-> action])
                            ELSE enqLog
               /\ ret' = [NoRet EXCEPT !.op = "EnqueueJob", !.key = key, !.err = r.err]
    /\ UNCHANGED <<entries, files, pc, sel, deqLog, mode, ever>>
    /\ UNCHANGED nonCacheVars

\* DequeueJob, first statement: selectNextJob
DequeueSelect(t, dbFault) ==
    /\ MayStart
    /\ pc[t] = "idle"
    /\ LET r == selectNextJob(jobs, dbFault)
       IN IF r.err = "nil"
          THEN /\ pc' = [pc EXCEPT ![t] = "selected"]
               /\ sel' = [sel EXCEPT ![t] = r.j]
               /\ UNCHANGED ret
          ELSE /\ ret' = [NoRet EXCEPT !.op = "DequeueJob", !.err = r.err]
               /\ UNCHANGED <<pc, sel>>
    /\ UNCHANGED <<entries, files, jobs, enqLog, deqLog, mode, ever>>
    /\ UNCHANGED nonCacheVars

\* DequeueJob, second statement: deleteJob, then return
DequeueDelete(t, dbFault) ==
    /\ pc[t] = "selected"
    /\ LET r == deleteJob(jobs, sel[t], dbFault)
       IN /\ jobs' = r.jobs
          /\ ret' = [NoRet EXCEPT !.op = "DequeueJob", !.key = sel[t].Key, !.job = sel[t],
                                  !.err = r.err]
          /\ deqLog' = IF r.err = "nil" THEN Append(deqLog, sel[t].seq) ELSE deqLog
    /\ pc' = [pc EXCEPT ![t] = "idle"]
    /\ sel' = [sel EXCEPT ![t] = ZeroJob]
    /\ UNCHANGED <<entries, files, enqLog, mode, ever>>
    /\ UNCHANGED nonCacheVars

CacheState(m) ==
    /\ entries = << >>
    /\ files = [k \in Keys |-> "none"]
    /\ jobs = {}
    /\ pc = [t \in Threads |-> "idle"]
    /\ sel = [t \in Threads |-> ZeroJob]
    /\ enqLog = << >>
    /\ deqLog = << >>
    /\ ret = NoRet
    /\ mode = m
    /\ ever = {}

EntryCalls ==
    \/ \E e \in Entries, d \in DbFaults, f \in FsFaults : RememberEntry(e, d, f)
    \/ \E k \in Keys, d \in DbFaults, f \in FsFaults : ForgetEntry(k, d, f)
    \/ \E k \in Keys : Recall(k)
    \/ \E k \in Keys : Contains(k)

EnqueueCalls == \E k \in Keys, a \in ActionInputs, d \in DbFaults : EnqueueJob(k, a, d)

DequeueCalls ==
    \/ \E t \in Threads, d \in DbFaults : DequeueSelect(t, d)
    \/ \E t \in Threads, d \in DbFaults : DequeueDelete(t, d)

(***************************************************************************)
(* The stream codec.  RealSizes are the sizes of the program; SmallSizes   *)
(* is the same codec with a short nonce counter, so that the counter can   *)
(* come back to its initial value.                                         *)
(***************************************************************************)
RealSizes == [chunk |-> EncryptionChunkSize, nonce |-> NonceSize,
              overhead |-> Overhead, mod |-> ByteMod]
SmallSizes == [chunk |-> SmallChunk, nonce |-> SmallNonce,
               overhead |-> SmallOverhead, mod |-> SmallByteMod]

StreamKeys == {"ka", "kb"}
Seeds(s) == IF s = RealSizes THEN {0} ELSE {0, 1}

DecryptionChunkSizeNoOverhead(s) == s.chunk + s.nonce

DecryptionChunkSize(s) == s.chunk + s.nonce + s.overhead

CeilDiv(n, d) == (n + d - 1) \div d

\* increments of the reduced nonce counter before it is back where it started
SmallCycle == SmallByteMod ^ (SmallNonce - 1)

\* plaintext lengths: around the chunk boundaries of the program; for the
\* reduced codec every length up to two chunks and a byte, and the lengths
\* around the last chunk its counter allows
PlainLengths(s) ==
    IF s = RealSizes
    THEN {0, 1, EncryptionChunkSize - 1, EncryptionChunkSize, EncryptionChunkSize + 1,
          4000, 2 * EncryptionChunkSize, 2 * EncryptionChunkSize + 1}
    ELSE 0..(2 * SmallChunk + 1)
         \cup {SmallChunk * (SmallCycle - 1) + d : d \in {-1, 0, 1}}

PlainGen(n, seed) == [i \in 1..n |-> (seed + 7 * i) % 256]

\* GenerateNonce: the random nonces tried
NonceInputs(s) ==
    { [i \in 1..s.nonce |-> 0], [i \in 1..s.nonce |-> s.mod - 1] }
    \cup (IF s = RealSizes THEN {}
          ELSE { [i \in 1..s.nonce |-> IF i = s.nonce THEN s.mod - 1 ELSE 0] })

(***************************************************************************)
(* IncrementNonce: from the last byte towards the second one (Go index     *)
(* NonceSize-1 down to 1), add one and stop at the first byte that does    *)
(* not wrap to zero.  The first byte is never touched.                     *)
(***************************************************************************)
RECURSIVE incrementFrom(_, _, _)
incrementFrom(nonce, i, mod) ==
    IF i < 2 THEN nonce
    ELSE LET v == (nonce[i] + 1) % mod
             n2 == [nonce EXCEPT ![i] = v]
         IN IF v # 0 THEN n2 ELSE incrementFrom(n2, i - 1, mod)

IncrementNonceNoCarry(nonce, mod) ==
    [nonce EXCEPT ![Len(nonce)] = (nonce[Len(nonce)] + 1) % mod]

IncrementNonce(nonce, mod) == incrementFrom(nonce, Len(nonce), mod)

(***************************************************************************)
(* Readers.  A reader is the sequence of the results its Read calls give   *)
(* for a buffer of one byte: [n, err, b] with n the count returned, err    *)
(* the error and b the byte stored in the buffer when n = 1.  After the    *)
(* last result every call returns no byte and io.EOF.                      *)
(***************************************************************************)
EOFResult == [n |-> 0, err |-> "EOF", b |-> 0]

\* an os.File, a bytes.Reader, the read end of an io.Pipe over the bytes s:
\* one byte and no error while bytes remain, then no byte and io.EOF
\* (SubSeq of the whole makes TLC keep the results as a tuple)
FileReader(s) == SubSeq([i \in 1..Len(s) |-> [n |-> 1, err |-> "nil", b |-> s[i]]], 1, Len(s))

\* the result of the i-th Read call on reader r
Read(r, i) == IF i \in DOMAIN r THEN r[i] ELSE EOFResult

\* the first j in 1..L whose Read call returns an error, L+1 if none does
FirstError(r, pos, L) ==
    LET stops == {j \in 1..L : Read(r, pos + j - 1).err # "nil"}
    IN IF stops = {} THEN L + 1 ELSE CHOOSE k \in stops : \A j \in stops : k <= j

\* singleByte[0] after the j-th Read of a GetChunk call that started at pos:
\* the byte of the last Read that stored one, 0 (make) if none did.  The
\* count Read returns is not looked at.
singleByte(r, pos, j) ==
    LET this == Read(r, pos + j - 1)
        stored == {m \in 1..(j - 1) : Read(r, pos + m - 1).n = 1}
    IN IF this.n = 1 THEN this.b
       ELSE IF stored = {} THEN 0
       ELSE Read(r, pos + (CHOOSE k \in stored : \A m \in stored : m <= k) - 1).b

GetChunkShort(midCancel, r, pos, L) ==
    LET k == FirstError(r, pos, L - 1)
    IN IF midCancel
       THEN [length |-> 0, err |-> "canceled", data |-> << >>, pos |-> pos]
       ELSE [length |-> k - 1,
             err |-> IF k > L - 1 THEN "nil" ELSE Read(r, pos + k - 1).err,
             data |-> SubSeq([j \in 1..(k - 1) |-> singleByte(r, pos, j)], 1, k - 1),
             pos |-> IF k > L - 1 THEN pos + k - 1 ELSE pos + k]

(***************************************************************************)
(* GetChunk: Read one byte at a time until the chunk is full or a Read     *)
(* returns an error (io.EOF included), in which case the byte of that Read *)
(* is not stored; the context is looked at before every byte.  pos is the  *)
(* number of the next Read call on the reader; data is chunk[:length].     *)
(***************************************************************************)
GetChunk(midCancel, r, pos, L) ==
    LET k == FirstError(r, pos, L)
    IN IF midCancel
       THEN [length |-> 0, err |-> "canceled", data |-> << >>, pos |-> pos]
       ELSE [length |-> k - 1,
             err |-> IF k > L THEN "nil" ELSE Read(r, pos + k - 1).err,
             data |-> SubSeq([j \in 1..(k - 1) |-> singleByte(r, pos, j)], 1, k - 1),
             pos |-> IF k > L THEN pos + k - 1 ELSE pos + k]

(***************************************************************************)
(* secretbox as an ideal authenticated cipher.  A ciphertext byte is       *)
(* [t, a, b]: t = "n" a nonce byte of value a; t = "b" byte b of the box   *)
(* that Seal call number a produced; t = "x" a byte whose value was        *)
(* changed on the way.  Open accepts a box only if it is, byte for byte,   *)
(* the output of a Seal call made with the same key and nonce.             *)
(***************************************************************************)
NonceByte(v) == [t |-> "n", a |-> v, b |-> 0]
BoxByte(id, j) == [t |-> "b", a |-> id, b |-> j]

\* EncryptBytes: the nonce, then the sealed message; id numbers the Seal call
EncryptBytes(k, nonce, message, id, s) ==
    [i \in 1..(s.nonce + Len(message) + s.overhead) |->
        IF i <= s.nonce THEN NonceByte(nonce[i]) ELSE BoxByte(id, i - s.nonce)]

secretboxOpen(k, nonce, box, sealed, s) ==
    LET ids == {id \in 1..Len(sealed) :
                   /\ sealed[id].key = k
                   /\ sealed[id].nonce = nonce
                   /\ Len(box) = Len(sealed[id].msg) + s.overhead
                   /\ \A j \in 1..Len(box) : box[j] = BoxByte(id, j)}
    IN IF ids = {} THEN [out |-> << >>, ok |-> FALSE]
       ELSE [out |-> sealed[CHOOSE id \in ids : TRUE].msg, ok |-> TRUE]

DecryptBytesUnchecked(k, message, sealed, s) ==
    [out |-> << >>, err |-> "nil"]

\* DecryptBytes: too short, or secretbox.Open says no: ErrDecrypt
DecryptBytes(k, message, sealed, s) ==
    IF Len(message) < s.nonce + s.overhead THEN [out |-> << >>, err |-> "ErrDecrypt"]
    ELSE IF \E i \in 1..s.nonce : message[i].t # "n" THEN [out |-> << >>, err |-> "ErrDecrypt"]
    ELSE LET nonce == [i \in 1..s.nonce |-> message[i].a]
             o == secretboxOpen(k, nonce, SubSeq(message, s.nonce + 1, Len(message)), sealed, s)
         IN IF o.ok THEN [out |-> o.out, err |-> "nil"]
            ELSE [out |-> << >>, err |-> "ErrDecrypt"]

NoCall == [phase |-> "idle", nonce |-> << >>, initialNonce |-> << >>, pos |-> 1,
           written |-> 0, n |-> 0, err |-> "nil", wfault |-> FALSE]
NoChan == [kind |-> "none", at |-> 0, key |-> ""]

Return(call, n, err) == [call EXCEPT !.phase = "done", !.n = n, !.err = err]

\* Encrypt is called: the locals before the loop
EncryptCall(k, n, seed, nonce) ==
    /\ enc.phase = "idle"
    /\ encKey' = k
    /\ src' = PlainGen(n, seed)
    /\ enc' = [NoCall EXCEPT !.phase = "run", !.nonce = nonce, !.initialNonce = nonce]
    /\ UNCHANGED <<sz, cipher, seals, chan, wire, dec, out, ctxDone>>
    /\ UNCHANGED nonStreamVars

(***************************************************************************)
(* One iteration of the loop of Encrypt.  midCancel: the context is        *)
(* cancelled while GetChunk reads; wFault: w.Write returns an error.       *)
(***************************************************************************)
EncryptLoop(midCancel, wFault) ==
    /\ enc.phase = "run"
    /\ IF ctxDone
       THEN /\ enc' = Return(enc, 0, "canceled")
            /\ UNCHANGED <<cipher, seals, ctxDone>>
       ELSE LET nonce == IncrementNonce(enc.nonce, sz.mod)
                g == GetChunk(midCancel, FileReader(src), enc.pos, sz.chunk)
                encryptedChunk == EncryptBytes(encKey, nonce, g.data, Len(seals) + 1, sz)
                now == [enc EXCEPT !.nonce = nonce, !.pos = g.pos]
            IN IF nonce = enc.initialNonce
               THEN /\ enc' = Return([enc EXCEPT !.nonce = nonce], 0, "ErrEncryptSize")
                    /\ UNCHANGED <<cipher, seals, ctxDone>>
               ELSE IF g.err \notin {"nil", "EOF"}
               THEN /\ enc' = Return(now, 0, g.err)
                    /\ ctxDone' = TRUE
                    /\ UNCHANGED <<cipher, seals>>
               ELSE IF g.length > 0 /\ wFault
               THEN /\ enc' = Return([now EXCEPT !.wfault = TRUE], 0, "writeError")
                    /\ seals' = Append(seals, [key |-> encKey, nonce |-> nonce, msg |-> g.data])
                    /\ UNCHANGED <<cipher, ctxDone>>
               ELSE LET written == IF g.length > 0 THEN enc.written + Len(encryptedChunk)
                                   ELSE enc.written
                    IN /\ cipher' = IF g.length > 0 THEN cipher \o encryptedChunk ELSE cipher
                       /\ seals' = IF g.length > 0
                                   THEN Append(seals, [key |-> encKey, nonce |-> nonce, msg |-> g.data])
                                   ELSE seals
                       /\ enc' = IF g.err = "EOF"
                                 THEN Return([now EXCEPT !.written = written], written, "nil")
                                 ELSE [now EXCEPT !.written = written]
                       /\ UNCHANGED ctxDone
    /\ UNCHANGED <<sz, encKey, src, chan, wire, dec, out>>
    /\ UNCHANGED nonStreamVars

\* the ciphertext positions at which the channel is tried
ProbePositions(len, s) ==
    IF s = RealSizes
    THEN {1, s.nonce + 1, DecryptionChunkSize(s), DecryptionChunkSize(s) + 1, len} \cap 1..len
    ELSE (1..(3 * DecryptionChunkSize(s)) \cup {len}) \cap 1..len

\* untouched with either key, or damaged at one position with the right key
Channels(len, s) ==
    {[kind |-> "none", at |-> 0, key |-> k] : k \in StreamKeys}
    \cup {[kind |-> c, at |-> p, key |-> encKey] :
             c \in {"flip", "cut"}, p \in ProbePositions(len, s)}

\* flip: the byte at position at changes its value; cut: the stream ends before it
Transmit(bytes, c) ==
    CASE c.kind = "none" -> bytes
      [] c.kind = "flip" -> [bytes EXCEPT ![c.at] = [@ EXCEPT !.t = "x"]]
      [] c.kind = "cut" -> SubSeq(bytes, 1, c.at - 1)

\* Decrypt is called, with its own context, on what became of the ciphertext
DecryptCall(c) ==
    /\ enc.phase = "done" /\ enc.err = "nil"
    /\ dec.phase = "idle"
    /\ c \in Channels(Len(cipher), sz)
    /\ chan' = c
    /\ wire' = Transmit(cipher, c)
    /\ dec' = [NoCall EXCEPT !.phase = "run"]
    /\ ctxDone' = FALSE
    /\ UNCHANGED <<sz, encKey, src, enc, cipher, seals, out>>
    /\ UNCHANGED nonStreamVars

(***************************************************************************)
(* One iteration of the loop of Decrypt.                                   *)
(***************************************************************************)
DecryptLoop(midCancel, wFault) ==
    /\ dec.phase = "run"
    /\ IF ctxDone
       THEN /\ dec' = Return(dec, 0, "canceled")
            /\ UNCHANGED <<out, ctxDone>>
       ELSE LET g == GetChunk(midCancel, FileReader(wire), dec.pos, DecryptionChunkSize(sz))
                d == DecryptBytes(chan.key, g.data, seals, sz)
                now == [dec EXCEPT !.pos = g.pos]
            IN IF g.err \notin {"nil", "EOF"}
               THEN /\ dec' = Return(now, 0, g.err)
                    /\ ctxDone' = TRUE
                    /\ UNCHANGED out
               ELSE IF g.length > 0 /\ d.err # "nil"
               THEN /\ dec' = Return(now, 0, d.err)
                    /\ UNCHANGED <<out, ctxDone>>
               ELSE IF g.length > 0 /\ wFault
               THEN /\ dec' = Return([now EXCEPT !.wfault = TRUE], 0, "writeError")
                    /\ UNCHANGED <<out, ctxDone>>
               ELSE LET written == IF g.length > 0 THEN dec.written + Len(d.out)
                                   ELSE dec.written
                    IN /\ out' = IF g.length > 0 THEN out \o d.out ELSE out
                       /\ dec' = IF g.err = "EOF"
                                 THEN Return([now EXCEPT !.written = written], written, "nil")
                                 ELSE [now EXCEPT !.written = written]
                       /\ UNCHANGED ctxDone
    /\ UNCHANGED <<sz, encKey, src, enc, cipher, seals, chan, wire>>
    /\ UNCHANGED nonStreamVars

\* the caller cancels the context of the running call
Cancel ==
    /\ enc.phase = "run" \/ dec.phase = "run"
    /\ ~ctxDone
    /\ ctxDone' = TRUE
    /\ UNCHANGED <<sz, encKey, src, enc, cipher, seals, chan, wire, dec, out>>
    /\ UNCHANGED nonStreamVars

StreamInit(s) ==
    /\ sz = s
    /\ encKey = ""
    /\ src = << >>
    /\ enc = NoCall
    /\ cipher = << >>
    /\ seals = << >>
    /\ chan = NoChan
    /\ wire = << >>
    /\ dec = NoCall
    /\ out = << >>
    /\ ctxDone = FALSE

StreamNext ==
    \/ \E k \in StreamKeys, n \in PlainLengths(sz), seed \in Seeds(sz), nonce \in NonceInputs(sz) :
           EncryptCall(k, n, seed, nonce)
    \/ \E m \in BOOLEAN, w \in BOOLEAN : EncryptLoop(m, w)
    \/ \E c \in Channels(Len(cipher), sz) : DecryptCall(c)
    \/ \E m \in BOOLEAN, w \in BOOLEAN : DecryptLoop(m, w)
    \/ Cancel

(***************************************************************************)
(* runChunkTest: GetChunk is called with a chunk of ChunkTestLen bytes     *)
(* until it returns io.EOF, and what it returned is appended to dst.       *)
(***************************************************************************)
ByteVals == {1, 2}

\* results of a Read call that is not the last one: a byte, or nothing yet
ReadResults ==
    {[n |-> 1, err |-> "nil", b |-> v] : v \in ByteVals} \cup {[n |-> 0, err |-> "nil", b |-> 0]}

\* a reader may hand out its last byte together with io.EOF
LastResults == {[n |-> 1, err |-> "EOF", b |-> v] : v \in ByteVals}

RECURSIVE ResultSeqs(_)
ResultSeqs(n) ==
    IF n = 0 THEN {<< >>}
    ELSE ResultSeqs(n - 1)
         \cup {Append(r, x) : r \in {q \in ResultSeqs(n - 1) : Len(q) = n - 1}, x \in ReadResults}

Readers ==
    ResultSeqs(MaxReads) \cup {Append(r, x) : r \in ResultSeqs(MaxReads), x \in LastResults}

\* the bytes a reader delivers with its first i Read calls
RECURSIVE Delivered(_, _)
Delivered(r, i) ==
    IF i = 0 THEN << >>
    ELSE IF Read(r, i).n = 1 THEN Append(Delivered(r, i - 1), Read(r, i).b)
         ELSE Delivered(r, i - 1)

ChunkTest(r) ==
    [rd |-> r, pos |-> 1, dst |-> << >>, length |-> 0, err |-> "nil", calls |-> 0, done |-> FALSE]

ChunkIdle == chk = ChunkTest(<< >>)

runChunkTest ==
    /\ ~chk.done
    /\ LET g == GetChunk(FALSE, chk.rd, chk.pos, ChunkTestLen)
       IN chk' = [chk EXCEPT !.pos = g.pos, !.length = g.length, !.err = g.err,
                             !.calls = @ + 1,
                             !.dst = IF g.err # "nil" /\ g.length = 0 THEN @ ELSE @ \o g.data,
                             !.done = g.err # "nil"]
    /\ UNCHANGED nonChunkVars

(***************************************************************************)
(* Package secure.  scrypt and secretbox are ideal: the derived key is     *)
(* determined by, and determines, passphrase and salt; byte j of a box is  *)
(* [t |-> "b", a |-> <<key, nonce, message>>, b |-> j], and Open accepts a *)
(* box only if it is, byte for byte, what Seal made with the same key and  *)
(* nonce.                                                                  *)
(***************************************************************************)
KeySize == 32
SaltSize == 8

Passphrases == {<<0>>, <<0, 0>>, <<7>>, <<7, 0>>, <<0, 9>>}
KeyBuffers == {[i \in 1..KeySize |-> v] : v \in {0, 5}}    \* memguard.NewImmutableRandom
SaltInputs == {[i \in 1..SaltSize |-> v] : v \in {1, 2}}   \* GenerateSalt
SecureNonces == {[i \in 1..NonceSize |-> v] : v \in {3, 4}} \* GenerateNonce
RngFaults == {"ok", "nonce", "salt"}    \* which read of rand.Reader fails, if any

NoKey == << >>

\* scrypt.Key(pass, salt, 1<<15, 8, 1, KeySize)
scryptKey(pass, salt) ==
    [i \in 1..KeySize |-> [t |-> "s", a |-> <<pass, salt>>, b |-> i]]

\* PassphraseContainer.DeriveKeyContainer: a passphrase of zero bytes only is
\* taken for a wiped container
DeriveKeyContainer(pass, salt) ==
    IF \A i \in 1..Len(pass) : pass[i] = 0
    THEN [kc |-> NoKey, err |-> "wipedAlready"]
    ELSE [kc |-> scryptKey(pass, salt), err |-> "nil"]

\* secretbox.Seal(out, message, nonce, key), without the out prefix
Seal(message, nonce, key) ==
    [j \in 1..(Len(message) + Overhead) |-> [t |-> "b", a |-> <<key, nonce, message>>, b |-> j]]

\* secretbox.Open(nil, box, nonce, key)
Open(box, nonce, key) ==
    IF /\ Len(box) >= Overhead
       /\ box[1].t = "b"
       /\ box = Seal(box[1].a[3], nonce, key)
    THEN [out |-> box[1].a[3], ok |-> TRUE]
    ELSE [out |-> << >>, ok |-> FALSE]

\* secure.Encrypt: the nonce, then the box
secureEncrypt(kc, nonce, message) == nonce \o Seal(message, nonce, kc)

\* secure.Decrypt
secureDecrypt(kc, message) ==
    IF Len(message) < NonceSize + Overhead
    THEN [out |-> << >>, err |-> "ErrDecrypt"]
    ELSE LET o == Open(SubSeq(message, NonceSize + 1, Len(message)),
                       SubSeq(message, 1, NonceSize), kc)
         IN IF o.ok THEN [out |-> o.out, err |-> "nil"]
            ELSE [out |-> << >>, err |-> "ErrDecrypt"]

\* EncryptWithSalt; a nil container is written NoKey
EncryptWithSalt(pcont, nonce, message, salt, rng) ==
    IF pcont = NoKey THEN [out |-> << >>, err |-> "ErrPassphraseContainerNotSet"]
    ELSE IF rng = "salt" THEN [out |-> << >>, err |-> "rand"]
    ELSE LET d == DeriveKeyContainer(pcont, salt)
         IN IF d.err # "nil" THEN [out |-> << >>, err |-> d.err]
            ELSE [out |-> salt \o secureEncrypt(d.kc, nonce, message), err |-> "nil"]

(***************************************************************************)
(* base64.StdEncoding.  A string is a sequence of groups of four           *)
(* characters; a group stands for up to three bytes q and ends with pad    *)
(* characters "=".  Decoding rejects padding before the last group.        *)
(***************************************************************************)
EncodeToString(bytes) ==
    [g \in 1..CeilDiv(Len(bytes), 3) |->
        LET last == IF 3 * g <= Len(bytes) THEN 3 * g ELSE Len(bytes)
        IN [q |-> SubSeq(bytes, 3 * g - 2, last), pad |-> 3 * g - last]]

DecodeString(str) ==
    IF \E g \in 1..(Len(str) - 1) : str[g].pad # 0
    THEN [out |-> << >>, err |-> "CorruptInputError"]
    ELSE [out |-> [j \in 1..(IF str = << >> THEN 0 ELSE 3 * Len(str) - str[Len(str)].pad) |->
                      str[((j - 1) \div 3) + 1].q[((j - 1) % 3) + 1]],
          err |-> "nil"]

\* EncryptWithSaltToString
EncryptWithSaltToString(pcont, message, salt, nonce, rng) ==
    IF rng = "nonce" THEN [out |-> << >>, err |-> "rand"]
    ELSE LET c == EncryptWithSalt(pcont, nonce, message, salt, rng)
         IN IF c.err # "nil" THEN [out |-> << >>, err |-> c.err]
            ELSE [out |-> EncodeToString(c.out), err |-> "nil"]

\* DecryptWithSalt; message[:SaltSize] of a shorter message panics
DecryptWithSalt(pcont, message) ==
    IF pcont = NoKey THEN [out |-> << >>, err |-> "ErrPassphraseContainerNotSet"]
    ELSE IF Len(message) < SaltSize THEN [out |-> << >>, err |-> "panic"]
    ELSE LET d == DeriveKeyContainer(pcont, SubSeq(message, 1, SaltSize))
         IN IF d.err # "nil" THEN [out |-> << >>, err |-> d.err]
            ELSE secureDecrypt(d.kc, SubSeq(message, SaltSize + 1, Len(message)))

decryptWithSaltFromBase64(pcont, encoded) ==
    LET c == DecodeString(encoded)
    IN IF c.err # "nil" THEN [out |-> << >>, err |-> c.err]
       ELSE DecryptWithSalt(pcont, c.out)

\* DecryptWithSaltFromStringToKey: the key container, nil (NoKey) on error
DecryptWithSaltFromStringToKey(pcont, encodedKey) ==
    LET p == decryptWithSaltFromBase64(pcont, encodedKey)
    IN IF p.err # "nil" THEN [kc |-> NoKey, err |-> p.err]
       ELSE IF p.out = << >> THEN [kc |-> NoKey, err |-> "ErrInvalidLength"]
       ELSE [kc |-> p.out, err |-> "nil"]

(***************************************************************************)
(* TestEncryptKeyToString: a passphrase is protected, a key generated and  *)
(* wrapped, and the string is unwrapped with the same or another           *)
(* passphrase.                                                             *)
(***************************************************************************)
NoSecure ==
    [phase |-> "idle", pc |-> NoKey, kc |-> NoKey, rng |-> "ok", keyString |-> << >>,
     wrapErr |-> "nil", pc2 |-> NoKey, dkc |-> NoKey, unwrapErr |-> "nil"]

SecureIdle == sec = NoSecure

\* ProtectPassphrase and GenerateKeyContainer
ProtectAndGenerate(pass, key) ==
    /\ sec.phase = "idle"
    /\ sec' = [sec EXCEPT !.phase = "ready", !.pc = pass, !.kc = key]
    /\ UNCHANGED nonSecureVars

WrapKey(salt, nonce, rng) ==
    /\ sec.phase = "ready"
    /\ LET w == EncryptWithSaltToString(sec.pc, sec.kc, salt, nonce, rng)
       IN sec' = [sec EXCEPT !.phase = "wrapped", !.rng = rng, !.keyString = w.out,
                             !.wrapErr = w.err]
    /\ UNCHANGED nonSecureVars

UnwrapKey(pass) ==
    /\ sec.phase = "wrapped"
    /\ LET u == DecryptWithSaltFromStringToKey(pass, sec.keyString)
       IN sec' = [sec EXCEPT !.phase = "unwrapped", !.pc2 = pass, !.dkc = u.kc,
                             !.unwrapErr = u.err]
    /\ UNCHANGED nonSecureVars

SecureNext ==
    \/ \E p \in Passphrases, k \in KeyBuffers : ProtectAndGenerate(p, k)
    \/ \E s \in SaltInputs, n \in SecureNonces, r \in RngFaults : WrapKey(s, n, r)
    \/ \E p \in Passphrases : UnwrapKey(p)

(***************************************************************************)
(* Package cloud: Entry, Entry.Meta and Entry.UpdateMeta.  A Go string is  *)
(* its sequence of bytes.  encoding/json writes a string coerced to valid  *)
(* UTF-8: a byte that is not part of a valid encoding is replaced by       *)
(* U+FFFD, the bytes 239 191 189.  The strings here are ASCII bytes and    *)
(* bytes above 127 standing alone, which are not valid UTF-8.              *)
(***************************************************************************)
ReplacementChar == <<239, 191, 189>>

RECURSIVE ToValidUTF8(_)
ToValidUTF8(s) ==
    IF s = << >> THEN << >>
    ELSE (IF Head(s) < 128 THEN <<Head(s)>> ELSE ReplacementChar) \o ToValidUTF8(Tail(s))

\* strconv.FormatInt(n, 10) for n >= 0, and its inverse
RECURSIVE FormatInt(_)
FormatInt(n) == IF n < 10 THEN <<n>> ELSE Append(FormatInt(n \div 10), n % 10)

RECURSIVE ParseInt(_)
ParseInt(d) ==
    IF Len(d) = 1 THEN d[1] ELSE 10 * ParseInt(SubSeq(d, 1, Len(d) - 1)) + d[Len(d)]

\* Time.MarshalJSON (RFC 3339 with nanoseconds) and Time.UnmarshalJSON
MarshalTime(t) == [sec |-> FormatInt(t.sec), frac |-> FormatInt(t.nsec)]
UnmarshalTime(x) == [sec |-> ParseInt(x.sec), nsec |-> ParseInt(x.frac)]

CloudNames == {<<110, 49>>, <<110, 255>>}
CloudEntries ==
    [ID : {"testID"}, Key : {<<107>>}, ParentID : {<<57>>}, Name : CloudNames,
     IsDir : BOOLEAN, Size : {0, 153432}, LastModified : Times, Mode : {429}]
ZeroCloudEntry ==
    [ID |-> "", Key |-> << >>, ParentID |-> << >>, Name |-> << >>, IsDir |-> FALSE,
     Size |-> 0, LastModified |-> ZeroTime, Mode |-> 0]
\* the entry UpdateMeta is applied to: fresh, or with fields of its own
OtherEntries ==
    {[ZeroCloudEntry EXCEPT !.ID = "test 2"],
     [ID |-> "test 2", Key |-> <<120>>, ParentID |-> <<56>>, Name |-> <<111>>,
      IsDir |-> TRUE, Size |-> 9, LastModified |-> [sec |-> 2, nsec |-> 0], Mode |-> 420]}

\* json.Marshal(entry): the members in field order; ID has the tag "-"
Marshal(entry) ==
    << [name |-> "k", text |-> ToValidUTF8(entry.Key)],
       [name |-> "p", text |-> ToValidUTF8(entry.ParentID)],
       [name |-> "n", text |-> ToValidUTF8(entry.Name)],
       [name |-> "d", text |-> IF entry.IsDir THEN "true" ELSE "false"],
       [name |-> "s", text |-> FormatInt(entry.Size)],
       [name |-> "m", text |-> MarshalTime(entry.LastModified)],
       [name |-> "f", text |-> FormatInt(entry.Mode)] >>

Member(doc, n) == (CHOOSE i \in 1..Len(doc) : doc[i].name = n)

\* json.Unmarshal(plaintext, entry): every member sets its field, ID is kept
Unmarshal(doc, entry) ==
    [entry EXCEPT !.Key = doc[Member(doc, "k")].text,
                  !.ParentID = doc[Member(doc, "p")].text,
                  !.Name = doc[Member(doc, "n")].text,
                  !.IsDir = doc[Member(doc, "d")].text = "true",
                  !.Size = ParseInt(doc[Member(doc, "s")].text),
                  !.LastModified = UnmarshalTime(doc[Member(doc, "m")].text),
                  !.Mode = ParseInt(doc[Member(doc, "f")].text)]

\* Entry.Meta
Meta(entry, kc, nonce, rng) ==
    IF rng # "ok" THEN [out |-> << >>, err |-> "rand"]
    ELSE [out |-> EncodeToString(secureEncrypt(kc, nonce, Marshal(entry))), err |-> "nil"]

\* Entry.UpdateMeta: the entry afterwards and the error
UpdateMeta(entry, encryptedMeta, kc) ==
    LET decoded == DecodeString(encryptedMeta)
        plain == secureDecrypt(kc, decoded.out)
    IN IF decoded.err # "nil" THEN [entry |-> entry, err |-> decoded.err]
       ELSE IF plain.err # "nil" THEN [entry |-> entry, err |-> plain.err]
       ELSE [entry |-> Unmarshal(plain.out, entry), err |-> "nil"]

(***************************************************************************)
(* TestEntry: an entry is made, its metadata sealed, and another entry     *)
(* updated from the sealed metadata.                                       *)
(***************************************************************************)
NoCloud ==
    [phase |-> "idle", entry |-> ZeroCloudEntry, kc |-> NoKey, meta |-> << >>,
     metaErr |-> "nil", before |-> ZeroCloudEntry, other |-> ZeroCloudEntry,
     kc2 |-> NoKey, err |-> "nil"]

CloudIdle == cl = NoCloud

MakeEntries(e, o, k) ==
    /\ cl.phase = "idle"
    /\ cl' = [cl EXCEPT !.phase = "made", !.entry = e, !.before = o, !.other = o, !.kc = k]
    /\ UNCHANGED nonCloudVars

SealMeta(nonce, rng) ==
    /\ cl.phase = "made"
    /\ LET m == Meta(cl.entry, cl.kc, nonce, rng)
       IN cl' = [cl EXCEPT !.phase = "sealed", !.meta = m.out, !.metaErr = m.err]
    /\ UNCHANGED nonCloudVars

OpenMeta(k) ==
    /\ cl.phase = "sealed"
    /\ LET u == UpdateMeta(cl.other, cl.meta, k)
       IN cl' = [cl EXCEPT !.phase = "updated", !.other = u.entry, !.kc2 = k, !.err = u.err]
    /\ UNCHANGED nonCloudVars

CloudNext ==
    \/ \E e \in CloudEntries, o \in OtherEntries, k \in KeyBuffers : MakeEntries(e, o, k)
    \/ \E n \in SecureNonces, r \in {"ok", "nonce"} : SealMeta(n, r)
    \/ \E k \in KeyBuffers : OpenMeta(k)

(***************************************************************************)
(* Package service: the package variables config and passphrase, and the   *)
(* config file, which outlives the process.                                *)
(***************************************************************************)
ServicePassphrases == {<<7>>, <<8>>, <<0>>}
ArchiveNames == {"a", "b"}
testFilename == "testSettings.config"
ServiceSalts == {[i \in 1..SaltSize |-> 1]}
ServiceNonces == {[i \in 1..NonceSize |-> 3]}
ServiceKeys == {[i \in 1..KeySize |-> 5]}

NoFile == << >>
NilConfig == [isNil |-> TRUE, Filename |-> "", Archives |-> << >>]
\* &Configuration{Filename: filename, Archives: make(map[string]Archive)}
NewConfiguration(filename) == [isNil |-> FALSE, Filename |-> filename, Archives |-> << >>]

HasMember(doc, n) == \E i \in 1..Len(doc) : doc[i].name = n

\* json.Marshal(config): Archives has the option omitempty
MarshalConfig(c) ==
    <<[name |-> "Filename", text |-> c.Filename]>>
    \o (IF DOMAIN c.Archives = {} THEN << >>
        ELSE <<[name |-> "archives", text |-> c.Archives]>>)

\* json.Unmarshal(decryptedData, &config) into the configuration config points
\* to: a member sets its field, the archives are put into the existing map
UnmarshalConfig(doc, c) ==
    LET read == IF HasMember(doc, "archives") THEN doc[Member(doc, "archives")].text ELSE << >>
    IN [isNil |-> FALSE,
        Filename |-> IF HasMember(doc, "Filename") THEN doc[Member(doc, "Filename")].text
                     ELSE c.Filename,
        Archives |-> [n \in DOMAIN c.Archives \cup DOMAIN read |->
                         IF n \in DOMAIN read THEN read[n] ELSE c.Archives[n]]]

\* loadConfig: there is no file yet, or the file named config.Filename is
\* read; config is dereferenced for that, also when it is still nil
loadConfig(filename, c, pcont, file) ==
    IF file = NoFile THEN [config |-> NewConfiguration(filename), err |-> "nil"]
    ELSE IF c.isNil THEN [config |-> c, err |-> "panic"]
    ELSE LET d == DecryptWithSalt(pcont, file)
         IN IF d.err # "nil" THEN [config |-> c, err |-> d.err]
            ELSE [config |-> UnmarshalConfig(d.out, c), err |-> "nil"]

\* saveConfig: the file afterwards and the error
saveConfig(c, pcont, file, salt, nonce) ==
    LET contents == EncryptWithSalt(pcont, nonce, MarshalConfig(c), salt, "ok")
    IN IF contents.err # "nil" THEN [file |-> file, err |-> contents.err]
       ELSE [file |-> contents.out, err |-> "nil"]

NoCallYet == [op |-> "none", pass |-> NoKey, name |-> "", err |-> "nil"]
NoService ==
    [config |-> NilConfig, passphrase |-> NoKey, file |-> NoFile, last |-> NoCallYet, ops |-> 0]

ServiceIdle == svc = NoService

\* a panic ends the process: the next call finds the package variables of a
\* new process
AfterPanic(s, call) ==
    [s EXCEPT !.config = NilConfig, !.passphrase = NoKey, !.last = call, !.ops = @ + 1]

ActivateService(pass) ==
    /\ svc.ops < MaxServiceOps
    /\ LET l == loadConfig(testFilename, svc.config, pass, svc.file)
           call == [op |-> "ActivateService", pass |-> pass, name |-> "", err |-> l.err]
       IN svc' = IF l.err = "panic" THEN AfterPanic(svc, call)
                 ELSE [svc EXCEPT !.passphrase = pass, !.config = l.config, !.last = call,
                                  !.ops = @ + 1]
    /\ UNCHANGED nonServiceVars

CreateArchive(archiveName, key, salt, keySalt, keyNonce, nonce) ==
    /\ svc.ops < MaxServiceOps
    /\ LET call == [op |-> "CreateArchive", pass |-> svc.passphrase, name |-> archiveName,
                    err |-> "nil"]
           keyString == EncryptWithSaltToString(svc.passphrase, key, keySalt, keyNonce, "ok")
           added == [svc.config EXCEPT !.Archives =
                        [n \in DOMAIN @ \cup {archiveName} |->
                            IF n = archiveName THEN [MasterKey |-> keyString.out] ELSE @[n]]]
           saved == saveConfig(added, svc.passphrase, svc.file, salt, nonce)
       IN svc' =
            IF svc.config.isNil THEN AfterPanic(svc, [call EXCEPT !.err = "panic"])
            ELSE IF archiveName \in DOMAIN svc.config.Archives
            THEN [svc EXCEPT !.last = [call EXCEPT !.err = "errArchiveAlreadyExits"],
                             !.ops = @ + 1]
            ELSE IF keyString.err # "nil"
            THEN [svc EXCEPT !.last = [call EXCEPT !.err = keyString.err], !.ops = @ + 1]
            ELSE [svc EXCEPT !.config = added, !.file = saved.file,
                             !.last = [call EXCEPT !.err = saved.err], !.ops = @ + 1]
    /\ UNCHANGED nonServiceVars

\* the process ends and the program is started again: the package variables
\* are nil, the files are as they were left
Restart ==
    /\ svc.ops < MaxServiceOps
    /\ ~svc.config.isNil
    /\ svc' = [svc EXCEPT !.config = NilConfig, !.passphrase = NoKey,
                          !.last = [NoCallYet EXCEPT !.op = "start"], !.ops = @ + 1]
    /\ UNCHANGED nonServiceVars

ServiceNext ==
    \/ \E p \in ServicePassphrases : ActivateService(p)
    \/ \E n \in ArchiveNames, k \in ServiceKeys, s \in ServiceSalts, m \in ServiceNonces :
           CreateArchive(n, k, s, s, m, m)
    \/ Restart

(***************************************************************************)
(* Package fcab.  A Cabinet owns a Cache, an adapter (Client) and          *)
(* configWorkerCount JobProcessor values that travel between the processor *)
(* pool, the monitor goroutine, the goroutines running Process and the     *)
(* shutdown pool.                                                          *)
(***************************************************************************)
configWorkerCount == 3
rootKey == "00000000000000000000000000000000"
typeFile == "-"
typeDir == "d"
errParentDoesNotExist == "errParentDoesNotExist"

\* parent keys handed to QueueEntryForUpload: the root, a key an entry may
\* have, and a key no entry ever has
CabinetParents == {rootKey, "k1", "p1"}
\* the open file handed to QueueEntryForUpload: what Stat and ioutil.ReadAll do on it
Dirents == {[IsDir |-> TRUE, Stat |-> "ok", ReadAll |-> "EISDIR"],
            [IsDir |-> FALSE, Stat |-> "ok", ReadAll |-> "ok"],
            [IsDir |-> FALSE, Stat |-> "ok", ReadAll |-> "readError"],
            [IsDir |-> FALSE, Stat |-> "statError", ReadAll |-> "ok"]}
\* what successive calls of generateKey return
GeneratedKeys == {<<"k1", "k2">>, <<"k2", "k1">>}
ClientFaults == BOOLEAN     \* TRUE: the adapter's call returns an error
\* what client.List sends to OpenCabinet
ListedEntry == [Key |-> "k1", ParentKey |-> rootKey, Name |-> "n1", Type |-> typeFile,
                Size |-> 7, LastModified |-> [sec |-> 1, nsec |-> 0], Body |-> "b1"]
Listings == {<< >>, <<ListedEntry>>}
\* the jobs table that an earlier run left in the cache file
PersistedQueues ==
    {<< >>,
     <<[Key |-> "k1", Action |-> ActionDelete]>>,
     <<[Key |-> "k1", Action |-> ActionDownload], [Key |-> "k2", Action |-> ActionList]>>}

(***************************************************************************)
(* The calls on the Cache as functions of the tables and the files.        *)
(* A Body "pipe" is the read end of an io.Pipe whose write end is closed   *)
(* only when QueueEntryForUpload returns: io.Copy from it never sees EOF.  *)
(***************************************************************************)
rememberEntry(rows, fs, e, dbFault, fsFault) ==
    LET up == upsertEntry(rows, e, dbFault)
        waits == e.Body = "pipe" /\ fsFault = "ok"
        fr == CASE e.Body = "nil" -> deleteFileIfExists(fs, e.Key, fsFault)
                [] waits -> [files |-> [fs EXCEPT ![e.Key] = "partial"], err |-> "nil"]
                [] OTHER -> createAndCopy(fs, e.Key, e.Body, fsFault)
    IN [rows |-> up.rows, files |-> fr.files,
        err |-> IF e.Body = "nil" THEN fr.err ELSE "nil",
        blocked |-> waits]

forgetEntry(rows, fs, key, dbFault, fsFault) ==
    LET fr == deleteFileIfExists(fs, key, fsFault)
        dr == IF fr.err = "nil" THEN deleteEntryRow(rows, key, dbFault)
              ELSE [rows |-> rows, err |-> fr.err]
    IN [rows |-> dr.rows, files |-> fr.files, err |-> dr.err]

enqueueJob(js, key, action, serial, dbFault) ==
    IF ~isValidAction(action) THEN [jobs |-> js, err |-> "errInvalidAction"]
    ELSE insertJob(js, key, action, serial, dbFault)

dequeueJob(js, dbFault) ==
    LET r == selectNextJob(js, dbFault)
        d == deleteJob(js, r.j, dbFault)
    IN IF r.err # "nil" THEN [j |-> r.j, jobs |-> js, err |-> r.err]
       ELSE [j |-> r.j, jobs |-> d.jobs, err |-> d.err]

(***************************************************************************)
(* keyExists, assignKey, upsert.                                           *)
(***************************************************************************)
keyExists(rows, k) == k = rootKey \/ ContainsEntry(rows, k)

\* newKey starts as rootKey and is replaced by generateKey() while it exists
RECURSIVE assignLoop(_, _, _, _)
assignLoop(rows, newKey, gen, i) ==
    IF keyExists(rows, newKey) /\ i <= Len(gen)
    THEN assignLoop(rows, gen[i], gen, i + 1)
    ELSE newKey

assignKey(rows, entry, gen) == [entry EXCEPT !.Key = assignLoop(rows, rootKey, gen, 1)]

upsert(rows, fs, entry, gen, dbFault, fsFault) ==
    IF ~keyExists(rows, entry.ParentKey)
    THEN [entry |-> entry, rows |-> rows, files |-> fs, err |-> errParentDoesNotExist,
          blocked |-> FALSE]
    ELSE LET e == IF entry.Key = "" THEN assignKey(rows, entry, gen) ELSE entry
             r == rememberEntry(rows, fs, e, dbFault, fsFault)
         IN [entry |-> e, rows |-> r.rows, files |-> r.files, err |-> r.err,
             blocked |-> r.blocked]

(***************************************************************************)
(* DeleteEntry, DownloadEntry, UploadEntry on the tables, the files and    *)
(* the calls the adapter receives.                                         *)
(***************************************************************************)
\* the variant that returns before the adapter is called
DeleteEntryLocalOnly(rows, fs, adapter, entry, dbFault, fsFault, clientFault) ==
    LET f == forgetEntry(rows, fs, entry.Key, dbFault, fsFault)
    IN [rows |-> f.rows, files |-> f.files, adapter |-> adapter, err |-> f.err]

DeleteEntry(rows, fs, adapter, entry, dbFault, fsFault, clientFault) ==
    LET f == forgetEntry(rows, fs, entry.Key, dbFault, fsFault)
    IN IF f.err # "nil"
       THEN [rows |-> f.rows, files |-> f.files, adapter |-> adapter, err |-> f.err]
       ELSE [rows |-> f.rows, files |-> f.files,
             adapter |-> adapter \cup {[op |-> "Delete", key |-> entry.Key]},
             err |-> IF clientFault THEN "clientError" ELSE "nil"]

DownloadEntry(rows, fs, adapter, entry, dbFault, fsFault, clientFault) ==
    LET called == adapter \cup {[op |-> "OpenDownstream", key |-> entry.Key]}
        r == rememberEntry(rows, fs, [entry EXCEPT !.Body = "b1"], dbFault, fsFault)
    IN IF clientFault
       THEN [rows |-> rows, files |-> fs, adapter |-> called, err |-> "clientError"]
       ELSE [rows |-> r.rows, files |-> r.files, adapter |-> called, err |-> r.err]

UploadEntry(rows, fs, adapter, entry, clientFault) ==
    [rows |-> rows, files |-> fs,
     adapter |-> adapter \cup {[op |-> "Upload", key |-> entry.Key]},
     err |-> IF clientFault THEN "clientError" ELSE "nil"]

(***************************************************************************)
(* The state of a Cabinet.  JobProcessor values are interchangeable: the   *)
(* model counts how many are in each place.                                *)
(***************************************************************************)
NoCabCall == [op |-> "none", parentKey |-> "", returned |-> TRUE, err |-> "nil",
              entry |-> ZeroEntry, hadRow |-> FALSE, hadBlob |-> FALSE]

NoCabinet ==
    [open |-> FALSE,
     processorPool |-> 0,        \* JobProcessors buffered in processorPool
     held |-> FALSE,             \* monitorJobs holds a JobProcessor and looks for a job
     running |-> {},             \* the jobs of the goroutines inside Process
     shutdownPool |-> 0,         \* goroutines blocked sending on shutdownPool
     shutdownFlag |-> FALSE,
     closing |-> "no",           \* Close: "no", "waiting" in its loop, "returned"
     processorsShutDown |-> 0,
     cacheClosed |-> FALSE,
     adapter |-> {},             \* the calls the Client received in the last step
     done |-> {},                \* ghost: seq of the jobs whose action returned nil
     serial |-> 0,               \* ghost: jobs inserted so far
     ops |-> 0,                  \* calls made by the application
     call |-> NoCabCall]         \* the last call of the application and its result

CabinetIdle == cab = NoCabinet

RECURSIVE rememberAll(_, _, _, _)
rememberAll(rows, fs, listed, i) ==
    IF i > Len(listed) THEN [rows |-> rows, files |-> fs]
    ELSE LET r == rememberEntry(rows, fs, listed[i], FALSE, "ok")
         IN rememberAll(r.rows, r.files, listed, i + 1)

RECURSIVE persistJobs(_, _, _)
persistJobs(js, queue, i) ==
    IF i > Len(queue) THEN js
    ELSE persistJobs(insertJob(js, queue[i].Key, queue[i].Action, i, FALSE).jobs, queue, i + 1)

\* OpenCabinet: the Cache is opened, every listed entry is remembered, the
\* processor pool is filled and monitorJobs is started
OpenCabinet(listed, queue) ==
    LET c == rememberAll(<< >>, [k \in Keys |-> "none"], listed, 1)
        js == persistJobs({}, queue, 1)
    IN /\ entries = c.rows
       /\ files = c.files
       /\ jobs = js
       /\ cab = [NoCabinet EXCEPT !.open = TRUE, !.processorPool = configWorkerCount,
                                  !.serial = Len(queue)]

\* a statement on a closed database fails
Fails(dbFault) == dbFault \/ cab.cacheClosed

\* the variant that dispatches without taking a JobProcessor out of the pool
monitorJobsNoReceive ==
    /\ cab.open /\ ~cab.held
    /\ cab.processorPool > 0
    /\ cab' = [cab EXCEPT !.held = TRUE, !.adapter = {}, !.call = NoCabCall]
    /\ UNCHANGED <<entries, files, jobs>>
    /\ UNCHANGED nonCabinetVars

(***************************************************************************)
(* monitorJobs, outer loop: receive a JobProcessor from processorPool.     *)
(***************************************************************************)
monitorJobsRange ==
    /\ cab.open /\ ~cab.held
    /\ cab.processorPool > 0
    /\ cab' = [cab EXCEPT !.held = TRUE, !.processorPool = @ - 1, !.adapter = {}, !.call = NoCabCall]
    /\ UNCHANGED <<entries, files, jobs>>
    /\ UNCHANGED nonCabinetVars

(***************************************************************************)
(* monitorJobs, inner loop: DequeueJob; on success go jp.Process(job),     *)
(* otherwise sleep and try again.                                          *)
(***************************************************************************)
monitorJobsDequeue(dbFault) ==
    /\ cab.open /\ cab.held
    /\ LET d == dequeueJob(jobs, Fails(dbFault))
       IN /\ jobs' = d.jobs
          /\ cab' = IF d.err = "nil"
                    THEN [cab EXCEPT !.held = FALSE, !.running = @ \cup {d.j},
                                     !.adapter = {}, !.call = NoCabCall]
                    ELSE [cab EXCEPT !.adapter = {}, !.call = NoCabCall]
    /\ UNCHANGED <<entries, files>>
    /\ UNCHANGED nonCabinetVars

(***************************************************************************)
(* Process.  The err of the if statement shadows the one that is logged.   *)
(* shutdownFlag is written by Close and read here without                  *)
(* synchronisation: the read returns the old or the new value.  The        *)
(* goroutine ends by sending its JobProcessor on processorPool, or blocks  *)
(* sending on the unbuffered shutdownPool until Close receives.            *)
(***************************************************************************)
ProcessAction(job, entry, dbFault, fsFault, clientFault) ==
    CASE job.Action = ActionDelete ->
             DeleteEntry(entries, files, {}, entry, dbFault, fsFault, clientFault)
      [] job.Action = ActionDownload ->
             DownloadEntry(entries, files, {}, entry, dbFault, fsFault, clientFault)
      [] job.Action = ActionUpload ->
             UploadEntry(entries, files, {}, entry, clientFault)
      [] OTHER -> [rows |-> entries, files |-> files, adapter |-> {},
                   err |-> "notImplemented"]

Process(job, dbFault, fsFault, clientFault, flagRead) ==
    /\ cab.open /\ job \in cab.running
    /\ flagRead \in {cab.shutdownFlag, FALSE}
    /\ flagRead \/ cab.processorPool < configWorkerCount
    /\ LET r == RecallEntry(entries, files, job.Key)
           a == IF r.err = "nil"
                THEN ProcessAction(job, r.e, dbFault, fsFault, clientFault)
                ELSE [rows |-> entries, files |-> files, adapter |-> {},
                      err |-> r.err]
       IN /\ entries' = a.rows
          /\ files' = a.files
          /\ cab' = [cab EXCEPT !.adapter = a.adapter,
                                !.running = @ \ {job},
                                !.done = IF a.err = "nil" THEN @ \cup {job.seq} ELSE @,
                                !.shutdownPool = IF flagRead THEN @ + 1 ELSE @,
                                !.processorPool = IF flagRead THEN @ ELSE @ + 1,
                                !.call = NoCabCall]
    /\ UNCHANGED jobs
    /\ UNCHANGED nonCabinetVars

(***************************************************************************)
(* Close: set the flag, receive configWorkerCount JobProcessors from       *)
(* shutdownPool, close the cache.                                          *)
(***************************************************************************)
Close ==
    /\ cab.open /\ cab.closing = "no"
    /\ cab' = [cab EXCEPT !.shutdownFlag = TRUE, !.closing = "waiting", !.adapter = {}, !.call = NoCabCall]
    /\ UNCHANGED <<entries, files, jobs>>
    /\ UNCHANGED nonCabinetVars

CloseReceive ==
    /\ cab.closing = "waiting"
    /\ cab.shutdownPool > 0
    /\ LET n == cab.processorsShutDown + 1
       IN cab' = [cab EXCEPT !.shutdownPool = @ - 1,
                             !.processorsShutDown = n,
                             !.closing = IF n = configWorkerCount THEN "returned" ELSE @,
                             !.cacheClosed = (n = configWorkerCount),
                             !.adapter = {},
                             !.call = IF n = configWorkerCount
                                      THEN [NoCabCall EXCEPT !.op = "Close"] ELSE NoCabCall]
    /\ UNCHANGED <<entries, files, jobs>>
    /\ UNCHANGED nonCabinetVars

(***************************************************************************)
(* QueueEntryForUpload.  For a file that was read and encrypted the body   *)
(* of the entry is the read end of a pipe; gw.Close() and pw.Close() are   *)
(* deferred.  When upsert stops at the parent check nothing ever reads     *)
(* the pipe and the deferred gw.Close() blocks writing the gzip trailer;   *)
(* when RememberEntry copies from the pipe it waits for an EOF that only   *)
(* the deferred pw.Close() would send.  When os.Create fails RememberEntry *)
(* closes the read end and the deferred calls return.                      *)
(***************************************************************************)
QueueEntryForUpload(parentKey, dirent, gen, dbFault, fsFault, enqFault) ==
    /\ cab.open /\ cab.ops < MaxCabinetCalls
    /\ LET piped == dirent.ReadAll = "ok"
           entry == [ZeroEntry EXCEPT !.ParentKey = parentKey, !.Name = "n1", !.Size = 7,
                                      !.LastModified = ListedEntry.LastModified,
                                      !.Type = IF dirent.IsDir THEN typeDir ELSE typeFile,
                                      !.Body = IF piped THEN "pipe" ELSE "nil"]
           up == upsert(entries, files, entry, gen, Fails(dbFault), fsFault)
           enq == enqueueJob(jobs, up.entry.Key, ActionUpload, cab.serial + 1, Fails(enqFault))
           queued == up.err = "nil" /\ ~up.blocked /\ enq.err = "nil"
           result == [NoCabCall EXCEPT !.op = "QueueEntryForUpload", !.parentKey = parentKey]
       IN IF dirent.Stat # "ok"
          THEN /\ cab' = [cab EXCEPT !.ops = @ + 1, !.adapter = {},
                                     !.call = [result EXCEPT !.err = dirent.Stat]]
               /\ UNCHANGED <<entries, files, jobs>>
          ELSE /\ entries' = up.rows
               /\ files' = up.files
               /\ jobs' = IF queued THEN enq.jobs ELSE jobs
               /\ cab' = [cab EXCEPT
                             !.ops = @ + 1, !.adapter = {},
                             !.serial = IF queued THEN @ + 1 ELSE @,
                             !.call = [result EXCEPT
                                          !.entry = up.entry,
                                          !.err = IF up.err # "nil" THEN up.err ELSE enq.err,
                                          !.returned =
                                              IF up.err = errParentDoesNotExist THEN ~piped
                                              ELSE ~up.blocked]]
    /\ UNCHANGED nonCabinetVars

\* DeleteEntry called by the application
CallDeleteEntry(entry, dbFault, fsFault, clientFault) ==
    /\ cab.open /\ cab.ops < MaxCabinetCalls
    /\ LET r == DeleteEntry(entries, files, {}, entry, Fails(dbFault), fsFault,
                            clientFault)
       IN /\ entries' = r.rows
          /\ files' = r.files
          /\ cab' = [cab EXCEPT !.adapter = r.adapter,
                                !.ops = @ + 1,
                                !.call = [NoCabCall EXCEPT
                                             !.op = "DeleteEntry", !.entry = entry,
                                             !.err = r.err,
                                             !.hadRow = entry.Key \in DOMAIN entries,
                                             !.hadBlob = files[entry.Key] # "none"]]
    /\ UNCHANGED jobs
    /\ UNCHANGED nonCabinetVars

CabinetEntries == {[ListedEntry EXCEPT !.Key = k] : k \in Keys}

\* the calls of the application
CabinetCalls ==
    \/ \E p \in CabinetParents, f \in Dirents, g \in GeneratedKeys,
          d \in DbFaults, s \in FsFaults, q \in DbFaults :
           QueueEntryForUpload(p, f, g, d, s, q)
    \/ \E e \in CabinetEntries, d \in DbFaults, f \in FsFaults, c \in ClientFaults :
           CallDeleteEntry(e, d, f, c)

(***************************************************************************)
(* Opening a cabinet on the cache file of an earlier run.  Client.List of  *)
(* the S3 plugin builds each entry with makeEntry: the parent key comes    *)
(* from the metadata of the object and Body stays nil.                     *)
(***************************************************************************)
RemoteFile == [ListedEntry EXCEPT !.Body = "nil"]
RemoteDir == [ListedEntry EXCEPT !.Type = typeDir, !.Size = 0, !.Body = "nil"]
RemoteChild == [ListedEntry EXCEPT !.Key = "k2", !.ParentKey = "k1", !.Body = "nil"]
RemoteListings == {<< >>, <<RemoteFile>>, <<RemoteDir, RemoteChild>>}

\* the cache file: new, or left by a run that stored the blobs of k1 and k2
PriorCaches ==
    {[rows |-> << >>, files |-> [k \in Keys |-> "none"]],
     rememberAll(<< >>, [k \in Keys |-> "none"],
                 <<ListedEntry, [ListedEntry EXCEPT !.Key = "k2"]>>, 1)}

\* OpenCabinet on an existing cache: localstorage.Open keeps the tables and
\* the files, then every listed entry is remembered
CallOpenCabinet(listed) ==
    /\ ~cab.open /\ cab.closing = "no"
    /\ LET c == rememberAll(entries, files, listed, 1)
       IN /\ entries' = c.rows
          /\ files' = c.files
          /\ cab' = [cab EXCEPT !.open = TRUE, !.processorPool = configWorkerCount,
                                !.adapter = {[op |-> "List", key |-> ""]},
                                !.call = [NoCabCall EXCEPT !.op = "OpenCabinet"]]
    /\ UNCHANGED jobs
    /\ UNCHANGED nonCabinetVars

ReconcileNext ==
    \/ \E l \in RemoteListings : CallOpenCabinet(l)
    \/ CabinetCalls

\* the goroutines of the cabinet, Close, and directories queued under the root
\* while the workers run
WorkersNext ==
    \/ monitorJobsRange
    \/ \E d \in DbFaults : monitorJobsDequeue(d)
    \/ \E j \in cab.running, d \in DbFaults, f \in FsFaults, c \in ClientFaults,
          s \in BOOLEAN : Process(j, d, f, c, s)
    \/ Close
    \/ CloseReceive
    \/ QueueEntryForUpload(rootKey, [IsDir |-> TRUE, Stat |-> "ok", ReadAll |-> "EISDIR"],
                           <<"k2", "k1">>, FALSE, "ok", FALSE)

(***************************************************************************)
(* Package cache: Write and streamToFile.  streamToFile runs three stages  *)
(* joined by two io.Pipes: a goroutine running stream.Compress from src to *)
(* pcw, a goroutine running stream.Encrypt from pcr to pew, and the caller *)
(* in io.Copy from per to dst.  A Write on a pipe returns when a Read has  *)
(* taken the data; no stage ever closes the read end of a pipe.  One unit  *)
(* is what one Write of the compressor carries; the gzip footer written by *)
(* zw.Close() is the last unit.                                            *)
(***************************************************************************)
errChanSize == 5    \* make(chan error, 5)
WriteFaults == {"ok", "open", "keygen", "wrap", "stat", "tooLarge", "create"}

NoWrite ==
    [caller |-> "idle",      \* "idle", "copy" (in io.Copy), "collect", "returned", "panicked"
     err |-> "nil",          \* what Write returned
     kc |-> "none",          \* the key container of the call: "none", "live", "destroyed"
     fileExists |-> FALSE,   \* the cache file of entry.ID
     fileUnits |-> 0,        \* units written to it
     total |-> 0,            \* units of the complete blob
     srcLeft |-> 0,          \* units of src the compressor has not read yet
     comp |-> "none",        \* compressor: "read", "write", "flushErr", "flushEnd",
                             \* "failed", "closing", "done", "panicked"
     encr |-> "none",        \* encryptor: "select", "read", "write", "failed",
                             \* "closing", "done", "panicked"
     pcwClosed |-> FALSE,
     pewClosed |-> FALSE,
     errChan |-> << >>,
     errChanClosed |-> FALSE,
     ctxDone |-> FALSE]      \* streamCtx is cancelled

WriteIdle == wr = NoWrite

\* a send on errChan: the value is buffered, or the goroutine panics because
\* the channel is closed
send(w, e) == IF w.errChanClosed THEN w ELSE [w EXCEPT !.errChan = Append(@, e)]

\* Write up to the point where streamToFile has started its goroutines and
\* calls io.Copy
Write(fault, chunks) ==
    /\ wr.caller = "idle"
    /\ wr' = CASE fault \in {"open", "keygen"} ->
                     [wr EXCEPT !.caller = "returned", !.err = fault]
                [] fault \in {"wrap", "stat", "tooLarge", "create"} ->
                     [wr EXCEPT !.caller = "returned", !.err = fault, !.kc = "live"]
                [] OTHER ->
                     [wr EXCEPT !.caller = "copy", !.kc = "live", !.fileExists = TRUE,
                                !.total = chunks + 1, !.srcLeft = chunks,
                                !.comp = "read", !.encr = "select"]
    /\ UNCHANGED nonWriteVars

\* the context handed to Write is cancelled while the stream runs
CancelCtx ==
    /\ wr.caller = "copy" /\ ~wr.ctxDone
    /\ wr' = [wr EXCEPT !.ctxDone = TRUE]
    /\ UNCHANGED nonWriteVars

\* stream.Compress, io.Copy(zw, r): a Read of src; then zw writes to pcw.
\* After a failed Read and at the end of src zw.Close() writes as well.
CompressCopy(readFault) ==
    /\ wr.comp = "read"
    /\ wr' = IF readFault THEN [wr EXCEPT !.comp = "flushErr"]
             ELSE IF wr.srcLeft > 0 THEN [wr EXCEPT !.comp = "write", !.srcLeft = @ - 1]
             ELSE [wr EXCEPT !.comp = "flushEnd"]
    /\ UNCHANGED nonWriteVars

\* a Write on pcw meets a Read on pcr (GetChunk in stream.Encrypt)
PipeCompressed ==
    /\ wr.comp \in {"write", "flushErr", "flushEnd"}
    /\ wr.encr = "read"
    /\ wr' = [wr EXCEPT !.encr = "write",
                        !.comp = CASE wr.comp = "write" -> "read"
                                   [] wr.comp = "flushErr" -> "failed"
                                   [] OTHER -> "closing"]
    /\ UNCHANGED nonWriteVars

\* the compressor goroutine after stream.Compress has returned: on an error
\* errChan <- err and cancelCtx(); then pcw.Close()
CompressReturn ==
    /\ wr.comp \in {"failed", "closing"}
    /\ wr.comp = "failed" => (wr.errChanClosed \/ Len(wr.errChan) < errChanSize)
    /\ wr' = IF wr.comp = "failed"
             THEN IF wr.errChanClosed THEN [wr EXCEPT !.comp = "panicked"]
                  ELSE [send(wr, "readError") EXCEPT !.ctxDone = TRUE, !.pcwClosed = TRUE,
                                                     !.comp = "done"]
             ELSE [wr EXCEPT !.pcwClosed = TRUE, !.comp = "done"]
    /\ UNCHANGED nonWriteVars

\* stream.Encrypt at the top of its loop: select on ctx.Done() with a default
EncryptSelect ==
    /\ wr.encr = "select"
    /\ wr' = [wr EXCEPT !.encr = IF wr.ctxDone THEN "failed" ELSE "read"]
    /\ UNCHANGED nonWriteVars

\* the Read on pcr returns io.EOF after pcw.Close(): Encrypt returns nil
EncryptEOF ==
    /\ wr.encr = "read" /\ wr.pcwClosed
    /\ wr' = [wr EXCEPT !.encr = "closing"]
    /\ UNCHANGED nonWriteVars

\* the encryptor goroutine after stream.Encrypt has returned: on an error
\* errChan <- err and cancelCtx(); then pew.Close()
EncryptReturn ==
    /\ wr.encr \in {"failed", "closing"}
    /\ wr.encr = "failed" => (wr.errChanClosed \/ Len(wr.errChan) < errChanSize)
    /\ wr' = IF wr.encr = "failed"
             THEN IF wr.errChanClosed THEN [wr EXCEPT !.encr = "panicked"]
                  ELSE [send(wr, "context canceled") EXCEPT !.ctxDone = TRUE,
                                                            !.pewClosed = TRUE,
                                                            !.encr = "done"]
             ELSE [wr EXCEPT !.pewClosed = TRUE, !.encr = "done"]
    /\ UNCHANGED nonWriteVars

\* io.Copy(dst, per): a Write on pew meets the Read on per, then dst.Write.
\* When dst.Write fails io.Copy returns: errChan <- err, close(errChan).
CopyChunk(writeFault) ==
    /\ wr.caller = "copy" /\ wr.encr = "write"
    /\ wr' = IF writeFault
             THEN [send(wr, "writeError") EXCEPT !.encr = "select", !.errChanClosed = TRUE,
                                                 !.caller = "collect"]
             ELSE [wr EXCEPT !.encr = "select", !.fileUnits = @ + 1]
    /\ UNCHANGED nonWriteVars

\* the Read on per returns io.EOF after pew.Close(): io.Copy returns nil and
\* errChan is closed
CopyEOF ==
    /\ wr.caller = "copy" /\ wr.encr # "write" /\ wr.pewClosed
    /\ wr' = [wr EXCEPT !.errChanClosed = TRUE, !.caller = "collect"]
    /\ UNCHANGED nonWriteVars

\* the rest of streamToFile and of Write.  The loop over errChan starts
\* with err == nil and calls err.Error() for the first value it receives;
\* dst.Sync(), dst.Close() and src.Close() can fail.
Collect(closeFault) ==
    /\ wr.caller = "collect"
    /\ wr' = IF wr.errChan # << >> THEN [wr EXCEPT !.caller = "panicked", !.err = "panic"]
             ELSE IF closeFault THEN [wr EXCEPT !.caller = "returned", !.err = "syncError"]
             ELSE [wr EXCEPT !.caller = "returned", !.err = "nil"]
    /\ UNCHANGED nonWriteVars

WriteNext ==
    \/ \E f \in WriteFaults, n \in 1..MaxChunks : Write(f, n)
    \/ CancelCtx
    \/ \E f \in BOOLEAN : CompressCopy(f)
    \/ PipeCompressed
    \/ CompressReturn
    \/ EncryptSelect
    \/ EncryptEOF
    \/ EncryptReturn
    \/ \E f \in BOOLEAN : CopyChunk(f)
    \/ CopyEOF
    \/ \E f \in BOOLEAN : Collect(f)

vars == <<entries, files, jobs, pc, sel, enqLog, deqLog, ret, mode, ever,
          sz, encKey, src, enc, cipher, seals, chan, wire, dec, out, ctxDone,
          chk, sec, cl, svc, cab, wr>>

\* the parts of the program a specification does not exercise; v names the
\* variable it sets itself
RestIdleBut(v) ==
    /\ v = "chk" \/ ChunkIdle
    /\ v = "sec" \/ SecureIdle
    /\ v = "cl" \/ CloudIdle
    /\ v = "svc" \/ ServiceIdle
    /\ v = "cab" \/ CabinetIdle
    /\ v = "wr" \/ WriteIdle

RestIdle == RestIdleBut("")

CacheInit(m) == CacheState(m) /\ StreamInit(RealSizes) /\ RestIdle

QueueCalls == EnqueueCalls \/ DequeueCalls

\* the catalog and the blob files, with a short queue; calls do not overlap
CacheNext == EntryCalls \/ EnqueueCalls
SpecCache == CacheInit("cache") /\ [][CacheNext]_vars

\* the job queue used by one goroutine at a time
SpecQueue == CacheInit("seq") /\ [][QueueCalls]_vars

\* the job queue shared by NumThreads goroutines
SpecConc == CacheInit("conc") /\ [][QueueCalls]_vars

\* Encrypt, then Decrypt of what arrives, with the sizes of the program and
\* with the reduced sizes
StreamStart ==
    CacheState("seq") /\ RestIdle /\ \E s \in {RealSizes, SmallSizes} : StreamInit(s)
SpecStream == StreamStart /\ [][StreamNext]_vars

\* GetChunk called in a loop on readers of every kind
ChunkStart ==
    /\ CacheState("seq") /\ StreamInit(RealSizes) /\ RestIdleBut("chk")
    /\ \E r \in Readers : chk = ChunkTest(r)
SpecChunk == ChunkStart /\ [][runChunkTest]_vars

\* a key wrapped under a passphrase and unwrapped again
SecureStart == CacheState("seq") /\ StreamInit(RealSizes) /\ RestIdle
SpecSecure == SecureStart /\ [][SecureNext]_vars

\* metadata of an entry sealed and opened into another entry
CloudStart == CacheState("seq") /\ StreamInit(RealSizes) /\ RestIdle
SpecCloud == CloudStart /\ [][CloudNext]_vars

\* the service activated, archives created, the process restarted
ServiceStart == CacheState("seq") /\ StreamInit(RealSizes) /\ RestIdle
SpecService == ServiceStart /\ [][ServiceNext]_vars

\* a cabinet opened on a listing and a persisted queue
CabinetStart ==
    /\ pc = [t \in Threads |-> "idle"] /\ sel = [t \in Threads |-> ZeroJob]
    /\ enqLog = << >> /\ deqLog = << >> /\ ret = NoRet /\ mode = "cab" /\ ever = {}
    /\ StreamInit(RealSizes) /\ RestIdleBut("cab")
    /\ \E l \in Listings, q \in PersistedQueues : OpenCabinet(l, q)

\* the calls of the application, one after the other
SpecCabinet == CabinetStart /\ [][CabinetCalls]_vars

\* the monitor, the processors and Close
SpecWorkers == CabinetStart /\ [][WorkersNext]_vars

\* the same with every goroutine that can take a step taking it eventually
WorkersFairness ==
    /\ WF_vars(monitorJobsRange)
    /\ WF_vars(\E d \in DbFaults : monitorJobsDequeue(d))
    /\ WF_vars(\E j \in cab.running, d \in DbFaults, f \in FsFaults, c \in ClientFaults,
                  s \in BOOLEAN : Process(j, d, f, c, s))
    /\ WF_vars(CloseReceive)
SpecWorkersFair == SpecWorkers /\ WorkersFairness

\* a cabinet opened on the cache of an earlier run, then the calls of the
\* application
ReconcileStart ==
    /\ pc = [t \in Threads |-> "idle"] /\ sel = [t \in Threads |-> ZeroJob]
    /\ enqLog = << >> /\ deqLog = << >> /\ ret = NoRet /\ mode = "cab" /\ ever = {}
    /\ StreamInit(RealSizes) /\ RestIdleBut("cab")
    /\ jobs = {} /\ cab = NoCabinet
    /\ \E c \in PriorCaches : entries = c.rows /\ files = c.files
SpecReconcile == ReconcileStart /\ [][ReconcileNext]_vars

\* one call of cache.Write
WriteStart == CacheState("seq") /\ StreamInit(RealSizes) /\ RestIdleBut("wr") /\ wr = NoWrite
SpecWrite == WriteStart /\ [][WriteNext]_vars

(***************************************************************************)
(* Properties of the job queue.                                            *)
(***************************************************************************)

\* C1: when the DequeueJob calls of one cache do not overlap, the k-th
\* successful DequeueJob returns the k-th job that was enqueued, with the
\* key and action it was enqueued with, and that job is older than every job
\* still in the queue.
C1_DequeueInInsertionOrder ==
    /\ \A i \in 1..Len(deqLog) : deqLog[i] = i
    /\ (ret.op = "DequeueJob" /\ ret.err = "nil") =>
          /\ ret.job.seq \in 1..Len(enqLog)
          /\ ret.job.Key = enqLog[ret.job.seq].Key
          /\ ret.job.Action = enqLog[ret.job.seq].Action
          /\ \A j \in jobs : j.seq > ret.job.seq

\* two jobs with different keys were enqueued and both came back, while a
\* third one waits
C1_Witness ==
    /\ ret.op = "DequeueJob" /\ ret.err = "nil"
    /\ Len(deqLog) = 2
    /\ enqLog[1].Key # enqLog[2].Key
    /\ jobs # {}

\* C2: with DequeueJob running in several goroutines, no job is returned by
\* two successful calls, and once every call has returned each job that left
\* the queue was returned by exactly one call.
C2_DequeueAtomic ==
    /\ \A i, j \in 1..Len(deqLog) : i # j => deqLog[i] # deqLog[j]
    /\ AllIdle =>
          \A s \in 1..Len(enqLog) :
              (\A j \in jobs : j.seq # s) => \E i \in 1..Len(deqLog) : deqLog[i] = s

(***************************************************************************)
(* Properties of the catalog and the blob files.                           *)
(***************************************************************************)

\* C3: after a successful RememberEntry(e) ContainsEntry(e.Key) is true;
\* after a successful ForgetEntry(e) ContainsEntry(e.Key) is false and the
\* blob file of e.Key does not exist.
C3_RememberForgetContains ==
    /\ (ret.op = "RememberEntry" /\ ret.err = "nil") => ContainsEntry(entries, ret.key)
    /\ (ret.op = "ForgetEntry" /\ ret.err = "nil") =>
          ~ContainsEntry(entries, ret.key) /\ files[ret.key] = "none"

C5_RecallReturnsRemembered ==
    (ret.op = "RememberEntry" /\ ret.err = "nil") =>
        LET r == RecallEntry(entries, files, ret.key)
        IN /\ r.err = "nil"
           /\ r.e.ParentKey = ret.e.ParentKey
           /\ r.e.Name = ret.e.Name
           /\ r.e.Type = ret.e.Type
           /\ r.e.Size = ret.e.Size
           /\ r.e.LastModified = ret.e.LastModified

\* C6: a RememberEntry that upserted the row and then failed to create or
\* write the blob file returns an error.
C6_BlobFailureIsReported ==
    (ret.op = "RememberEntry" /\ ret.upserted /\ ret.blobFailed) => ret.err # "nil"

(***************************************************************************)
(* Properties of the stream codec.                                         *)
(***************************************************************************)
FrameSize == DecryptionChunkSize(sz)
NumFrames(bytes) == CeilDiv(Len(bytes), FrameSize)
\* the nonce at the head of frame i of a ciphertext
FrameNonce(bytes, i) == [j \in 1..sz.nonce |-> bytes[(i - 1) * FrameSize + j].a]
\* the plaintext bytes that frame i of a ciphertext of len bytes carries
FramePlainLen(len, i) ==
    (IF i * FrameSize <= len THEN FrameSize ELSE len - (i - 1) * FrameSize)
        - sz.nonce - sz.overhead

Undisturbed == ~ctxDone /\ ~dec.wfault

\* C7: Decrypt with the key of Encrypt, over exactly the bytes Encrypt wrote,
\* without cancellation and with a writer that accepts every Write, returns
\* nil and the number of plaintext bytes, and has written the plaintext.
C7_DecryptInvertsEncrypt ==
    (dec.phase = "done" /\ chan.kind = "none" /\ chan.key = encKey /\ Undisturbed) =>
        /\ dec.err = "nil"
        /\ out = src
        /\ dec.n = Len(src)

\* a plaintext of exactly two chunks of the program's size went through
C7_Witness ==
    /\ dec.phase = "done" /\ dec.err = "nil"
    /\ chan.kind = "none" /\ chan.key = encKey
    /\ sz = RealSizes
    /\ Len(src) = 2 * EncryptionChunkSize
    /\ out = src

FirstBadFrame ==
    IF chan.key # encKey THEN (IF Len(wire) > 0 THEN 1 ELSE 0)
    ELSE IF chan.kind = "flip" THEN CeilDiv(chan.at, FrameSize)
    ELSE IF chan.kind = "cut" /\ (chan.at - 1) % FrameSize # 0 THEN CeilDiv(chan.at, FrameSize)
    ELSE 0

\* C9: when frame k is the first that fails authentication, Decrypt never
\* writes anything but the plaintext of the frames before k, and (without
\* cancellation and with a writer that accepts every Write) it returns
\* ErrDecrypt having written exactly the plaintext of frames 1..k-1.
C9_AuthFailureStopsOutput ==
    (dec.phase # "idle" /\ FirstBadFrame > 0) =>
        LET before == (FirstBadFrame - 1) * sz.chunk
        IN /\ Len(out) <= before
           /\ out = SubSeq(src, 1, Len(out))
           /\ (dec.phase = "done" /\ Undisturbed) =>
                 /\ dec.err = "ErrDecrypt"
                 /\ out = SubSeq(src, 1, before)

\* a byte of the second frame was changed: the first chunk came out, then ErrDecrypt
C9_Witness ==
    /\ dec.phase = "done" /\ dec.err = "ErrDecrypt"
    /\ sz = RealSizes
    /\ chan.kind = "flip"
    /\ FirstBadFrame = 2
    /\ Len(out) = EncryptionChunkSize

\* b is a plus one, as big-endian numbers over all bytes but the first
BigEndianNext(a, b, mod) ==
    /\ Len(a) = Len(b)
    /\ b[1] = a[1]
    /\ \E k \in 1..Len(a) :
          /\ \A j \in (k + 1)..Len(a) : a[j] = mod - 1 /\ b[j] = 0
          /\ k >= 2 => /\ a[k] < mod - 1
                       /\ b[k] = a[k] + 1
                       /\ \A j \in 2..(k - 1) : b[j] = a[j]

\* C10: the nonce of the first frame is the generated nonce plus one and the
\* nonce of every later frame that of the frame before plus one; no two
\* frames carry the same nonce and none the generated one; Encrypt returns
\* ErrEncryptSize, without writing a frame, exactly when the running nonce
\* is back at the generated one, which takes a full cycle of the counter.
C10_NonceSchedule ==
    LET f == NumFrames(cipher)
    IN /\ f >= 1 => BigEndianNext(enc.initialNonce, FrameNonce(cipher, 1), sz.mod)
       /\ \A i \in 1..(f - 1) :
             BigEndianNext(FrameNonce(cipher, i), FrameNonce(cipher, i + 1), sz.mod)
       /\ \A i, j \in 1..f : i # j => FrameNonce(cipher, i) # FrameNonce(cipher, j)
       /\ \A i \in 1..f : FrameNonce(cipher, i) # enc.initialNonce
       /\ (enc.phase = "run" /\ enc.pos > 1) => enc.nonce # enc.initialNonce
       /\ (enc.phase = "done" /\ enc.err = "ErrEncryptSize") =>
             /\ enc.nonce = enc.initialNonce
             /\ enc.n = 0
             /\ sz = SmallSizes /\ f = SmallCycle - 1
       /\ (enc.phase = "done" /\ enc.err = "nil") => enc.nonce # enc.initialNonce

\* the reduced counter went through its whole cycle, with a carry on the way
C10_Witness ==
    /\ enc.phase = "done" /\ enc.err = "ErrEncryptSize"
    /\ NumFrames(cipher) = SmallCycle - 1
    /\ \E i \in 1..NumFrames(cipher) : FrameNonce(cipher, i)[sz.nonce] = 0

(***************************************************************************)
(* Properties of GetChunk.                                                 *)
(***************************************************************************)

\* C11: whatever way the reader splits its bytes over its Read calls (a Read
\* that returns no byte and no error, a last byte returned together with
\* io.EOF), a GetChunk call returns len(chunk) bytes unless the end of the
\* stream came first, and the chunks returned so far, put together, are the
\* bytes the reader has delivered so far.
C11_GetChunkContract ==
    chk.calls > 0 =>
        /\ chk.err = "nil" => chk.length = ChunkTestLen
        /\ chk.err \in {"nil", "EOF"}
        /\ chk.dst = Delivered(chk.rd, chk.pos - 1)

(***************************************************************************)
(* Properties of package secure.                                           *)
(***************************************************************************)

\* C12: for every passphrase p and every key k of KeySize bytes, unwrapping
\* with p the string that wrapping k with p returned gives a key container
\* holding the bytes of k; unwrapping it with another passphrase gives an
\* error and no key.  (The random source is taken to work.)
C12_UnwrapInvertsWrap ==
    (sec.phase = "unwrapped" /\ sec.rng = "ok") =>
        IF sec.pc2 = sec.pc
        THEN sec.unwrapErr = "nil" /\ sec.dkc = sec.kc
        ELSE sec.unwrapErr # "nil" /\ sec.dkc = NoKey

(***************************************************************************)
(* Properties of the entry metadata.                                       *)
(***************************************************************************)

\* C13: for every entry e, UpdateMeta applied to another entry with the
\* sealed metadata that e.Meta produced (and the same key) succeeds and sets
\* that entry's wrapped key, parent id, name, isDir, size, last-modified and
\* mode to those of e, and leaves that entry's own ID as it was.
C13_UpdateMetaRestoresFields ==
    (cl.phase = "updated" /\ cl.metaErr = "nil" /\ cl.kc2 = cl.kc) =>
        /\ cl.err = "nil"
        /\ cl.other = [cl.entry EXCEPT !.ID = cl.before.ID]

(***************************************************************************)
(* Properties of the service configuration.                                *)
(***************************************************************************)

\* the config file opens under passphrase p and holds archive n
FileHolds(p, n) ==
    /\ svc.file # NoFile
    /\ LET d == DecryptWithSalt(p, svc.file)
       IN /\ d.err = "nil"
          /\ HasMember(d.out, "archives")
          /\ n \in DOMAIN d.out[Member(d.out, "archives")].text

\* C14: once the configuration with archive "a" has been saved under the
\* correct passphrase, ActivateService with a wrong passphrase on that file
\* returns an error and does not panic, and ActivateService with the correct
\* passphrase succeeds with archive "a" in the loaded configuration.
C14_ActivateAfterSave ==
    \A c \in ServicePassphrases :
        (svc.last.op = "ActivateService" /\ FileHolds(c, "a")) =>
            IF svc.last.pass = c
            THEN /\ svc.last.err = "nil"
                 /\ ~svc.config.isNil /\ "a" \in DOMAIN svc.config.Archives
            ELSE svc.last.err \notin {"nil", "panic"}

(***************************************************************************)
(* Properties of the cabinet.                                              *)
(***************************************************************************)
\* the JobProcessors of a cabinet, wherever they are
Processors ==
    cab.processorPool + (IF cab.held THEN 1 ELSE 0) + Cardinality(cab.running)
        + cab.shutdownPool + cab.processorsShutDown

\* C15: at every moment at most configWorkerCount jobs are being processed:
\* every goroutine inside Process holds one of the configWorkerCount
\* JobProcessors, which monitorJobs took out of the processor pool for it
C15_AtMostWorkerCountJobs ==
    /\ Cardinality(cab.running) <= configWorkerCount
    /\ cab.open => Processors = configWorkerCount

\* all JobProcessors are busy while another job waits in the queue
C15_Witness == Cardinality(cab.running) = configWorkerCount /\ jobs # {}

\* C16: every call to Close eventually returns: once the shutdown flag is
\* set, all configWorkerCount JobProcessors reach the shutdown pool under
\* fair scheduling and the cache is closed, also when the queue is empty
\* and the JobProcessors sit idle in the processor pool
C16_CloseReturns == (cab.closing = "waiting") ~> (cab.closing = "returned" /\ cab.cacheClosed)

\* the step is a call of QueueEntryForUpload on a file whose Stat succeeds
QueueEntryForUploadStep ==
    /\ cab'.ops = cab.ops + 1
    /\ cab'.call.op = "QueueEntryForUpload"
    /\ cab'.call.err # "statError"

\* C17: QueueEntryForUpload with a parent key that is neither the root key
\* nor the key of an entry in the cache returns errParentDoesNotExist,
\* inserts no catalog row, writes no blob and enqueues no job
C17_MissingParentIsRefused ==
    [][(/\ QueueEntryForUploadStep
        /\ cab'.call.parentKey # rootKey
        /\ cab'.call.parentKey \notin DOMAIN entries)
       => (/\ cab'.call.returned
           /\ cab'.call.err = errParentDoesNotExist
           /\ entries' = entries /\ files' = files /\ jobs' = jobs)]_vars

\* C18: when QueueEntryForUpload returns success, the returned entry has a
\* newly assigned key, a catalog row for that key exists and exactly one
\* UPLOAD job for that key has been appended to the job queue
C18_SuccessMeansQueued ==
    [][(QueueEntryForUploadStep /\ cab'.call.returned /\ cab'.call.err = "nil")
       => LET k == cab'.call.entry.Key
          IN /\ k \notin {"", rootKey} \cup DOMAIN entries
             /\ k \in DOMAIN entries'
             /\ jobs \subseteq jobs'
             /\ \E j \in jobs' \ jobs :
                   /\ jobs' \ jobs = {j}
                   /\ j.Key = k /\ j.Action = ActionUpload
                   /\ \A o \in jobs : o.ID < j.ID]_vars

\* C19: after DeleteEntry(e) returns success the catalog row of e is absent,
\* the blob file of e is absent and the adapter's Delete has been invoked
\* for e
C19_DeleteRemovesEverything ==
    (cab.call.op = "DeleteEntry" /\ cab.call.err = "nil")
    => /\ cab.call.entry.Key \notin DOMAIN entries
       /\ files[cab.call.entry.Key] = "none"
       /\ [op |-> "Delete", key |-> cab.call.entry.Key] \in cab.adapter

\* a successful DeleteEntry of an entry that had a row and a blob
C19_Witness ==
    /\ cab.call.op = "DeleteEntry" /\ cab.call.err = "nil"
    /\ cab.call.hadRow /\ cab.call.hadBlob

\* C20: a job is removed from the persistent queue only after its action
\* has been processed successfully: every job that was enqueued and whose
\* action has not yet returned nil is still in the queue
C20_UnfinishedJobsStayQueued ==
    \A n \in 1..cab.serial : n \notin cab.done => \E j \in jobs : j.seq = n

\* C21: after any sequence of RememberEntry, ForgetEntry, EnqueueJob and
\* DequeueJob every job in the queue has a key for which a catalog row
\* exists
C21_JobsReferenceExistingEntries == \A j \in jobs : j.Key \in DOMAIN entries

\* C22: after any sequence of ingest, open-time reconciliation and
\* DeleteEntry every catalog row's parent key is the root key or the key of
\* an existing catalog row; deleting a directory that still has children
\* does not leave them with a missing parent
C22_ParentsExist ==
    cab.open => \A k \in DOMAIN entries :
                   \/ entries[k].parent_key = rootKey
                   \/ entries[k].parent_key \in DOMAIN entries

\* the step in which OpenCabinet runs
OpenCabinetStep == ~cab.open /\ cab'.open
ListedKeys(l) == {l[i].Key : i \in 1..Len(l)}

\* C30: open-time reconciliation keeps what the cache holds: remembering a
\* listed entry that carries no body, for a key that has a cached blob, does
\* not delete the blob, and the rows and blobs of the entries that are not
\* listed are unchanged
C30_ReconcileKeepsBlobs ==
    [][OpenCabinetStep =>
         \E l \in RemoteListings :
            /\ entries' = rememberAll(entries, files, l, 1).rows
            /\ \A k \in ListedKeys(l) : files[k] # "none" => files'[k] = files[k]
            /\ \A k \in Keys \ ListedKeys(l) :
                  /\ files'[k] = files[k]
                  /\ (k \in DOMAIN entries) = (k \in DOMAIN entries')
                  /\ k \in DOMAIN entries => entries'[k] = entries[k]]_vars

\* C23: the key that assignKey gives to a new entry is not the root key and
\* is not the key of any entry in the cache, so that no two entries of a
\* cabinet share a key
C23_AssignedKeyIsUnused ==
    [][(QueueEntryForUploadStep /\ cab'.call.entry.Key # "")
       => cab'.call.entry.Key \notin {rootKey} \cup DOMAIN entries]_vars

\* C24: when a worker processes a DELETE job for a key whose catalog row has
\* already been forgotten, the adapter's Delete is invoked for that key
C24_DeleteJobReachesAdapter ==
    [][\A j \in cab.running \ cab'.running :
          (j.Action = ActionDelete /\ j.Key \notin DOMAIN entries)
          => [op |-> "Delete", key |-> j.Key] \in cab'.adapter]_vars

\* C27: once Close has set the shutdown flag no further job is dequeued and
\* dispatched: only the jobs already in progress finish
C27_NoDispatchAfterClose ==
    [][cab.shutdownFlag => (jobs \subseteq jobs' /\ cab'.running \subseteq cab.running)]_vars

\* C28: an ActivateService that returns an error leaves the state of the
\* service unchanged: the passphrase container and the configuration that
\* were active before the call stay in effect (and so does the config file)
C28_FailedActivateChangesNothing ==
    [][(/\ svc'.ops = svc.ops + 1
        /\ svc'.last.op = "ActivateService"
        /\ svc'.last.err \notin {"nil", "panic"})
       => (/\ svc'.passphrase = svc.passphrase
           /\ svc'.config = svc.config
           /\ svc'.file = svc.file)]_vars

(***************************************************************************)
(* Properties of cache.Write.                                              *)
(***************************************************************************)
\* C25: cache.Write is all-or-nothing: it returns nil and the cache holds
\* the complete encrypted blob, or it returns a non-nil error, without
\* panicking, and leaves no partial cache file behind
C25_WriteAllOrNothing ==
    /\ wr.caller # "panicked"
    /\ wr.caller = "returned" =>
          IF wr.err = "nil" THEN wr.fileExists /\ wr.fileUnits = wr.total
          ELSE ~wr.fileExists

\* C26: on every exit path of cache.Write the key container generated for
\* the call has been destroyed before Write returns
C26_KeyDestroyedOnReturn ==
    (wr.caller \in {"returned", "panicked"} /\ wr.kc # "none") => wr.kc = "destroyed"

\* C29: in streamToFile, when a stage fails or the context is cancelled,
\* both goroutines and the caller terminate: no stage stays blocked on a
\* pipe that nobody will read, and no stage sends on the error channel
\* after it has been closed
C29_NoStageLeftBehind ==
    /\ ~(/\ wr.comp \in {"write", "flushErr", "flushEnd"}
         /\ wr.encr \in {"failed", "closing", "done", "panicked"})
    /\ ~(wr.encr = "write" /\ wr.caller \in {"collect", "returned", "panicked"})
    /\ wr.comp # "panicked" /\ wr.encr # "panicked"

====
